---- MODULE Spec2Model ----
(***************************************************************************)
(* The incremental change-polling engine of the gerrit client              *)
(* (vendor/k8s.io/test-infra/prow/gerrit/client/client.go): the per-project *)
(* pagination and classification loop, the fan-out over the projects and   *)
(* instances of the registry, and the reconfiguration of the registry.     *)
(***************************************************************************)
EXTENDS Integers, Sequences, FiniteSets, TLC

\* ---------------------------------------------------------------- bounds
\* Timestamps are 0..MaxTime; a change listing holds at most MaxChanges
\* changes; the page size (rateLimit) is 1..MaxRate.
MaxTime == 2
MaxChanges == 2
MaxRate == 2

Times == 0 .. MaxTime

\* ------------------------------------------------------------- constants
Merged == "MERGED"
New == "NEW"
\* any status other than NEW and MERGED
Abandoned == "ABANDONED"
PatchsetLevel == "/PATCHSET_LEVEL"

\* ------------------------------------------------------------ timestamps
\* gerrit.Timestamp embeds a time.Time
Stamp(t) == [Time |-> t]

parseStamp(value) == value.Time

\* a faulty After that holds for equal times too
NotBefore(t, u) == t >= u

\* time.Time.After
After(t, u) == t > u

\* ------------------------------------------------------- the change data
\* revision ids of a change: "r1" is an old patchset, "r2" the current one
OldOnly == "r1" :> [Number |-> 1, Created |-> Stamp(0)]

WithCurrent(t) == OldOnly @@ ("r2" :> [Number |-> 2, Created |-> Stamp(t)])

ChangeMessage(n, t, text) ==
    [Author |-> "owner", RevisionNumber |-> n, Date |-> Stamp(t), Message |-> text]

Comment(n, t, text) ==
    [Author |-> "reviewer", PatchSet |-> n, Updated |-> Stamp(t), Message |-> text]

Change(id, status, updated, submitted, revisions, messages) ==
    [ID |-> id, Status |-> status, Updated |-> Stamp(updated),
     Submitted |-> Stamp(submitted), CurrentRevision |-> "r2",
     Revisions |-> revisions, Messages |-> messages]

NoThreads == [p \in {} |-> <<>>]

\* the details of a change: what the listing says besides ID and Updated, and
\* the comment threads the gateway holds for the change
Detail(status, submitted, revisions, messages, threads) ==
    [Status |-> status, Submitted |-> submitted, Revisions |-> revisions,
     Messages |-> messages, Threads |-> threads]

Ends == {0, MaxTime}

\* details of the changes of a long listing: one of each branch of the
\* classification, the timestamps it does not read being fresh
PlainDetails ==
    {Detail(Merged, s, WithCurrent(MaxTime), <<ChangeMessage(2, MaxTime, "m")>>, NoThreads) : s \in Ends}
    \cup {Detail(Abandoned, MaxTime, WithCurrent(MaxTime), <<ChangeMessage(2, MaxTime, "m")>>, NoThreads)}
    \cup {Detail(New, 0, OldOnly, <<ChangeMessage(2, MaxTime, "m")>>, NoThreads)}
    \cup {Detail(New, 0, WithCurrent(c), <<>>, NoThreads) : c \in Ends}

NativeMessages ==
    {<<>>} \cup {<<ChangeMessage(n, t, "m")>> : n \in {1, 2}, t \in Times}

ThreadMaps ==
    {NoThreads, "file.go" :> <<Comment(2, MaxTime, "f")>>, PatchsetLevel :> <<>>}
    \cup {PatchsetLevel :> <<Comment(n, t, "c")>> : n \in {1, 2}, t \in Times}

\* details of the single open change of a short listing
OpenDetails ==
    {Detail(New, 0, r, m, th) :
        r \in {OldOnly} \cup {WithCurrent(c) : c \in Times},
        m \in NativeMessages, th \in ThreadMaps}

\* non-increasing sequences of n timestamps: the listing is sorted by the last
\* update time, most recently updated first
Descending(n) ==
    {s \in [1 .. n -> Times] : \A i \in 1 .. n - 1 : s[i] >= s[i + 1]}

\* a listing: for each position the change's Updated and its details
Listings ==
    UNION {{[updated |-> u, detail |-> d] : u \in Descending(n), d \in [1 .. n -> PlainDetails]} :
           n \in 0 .. MaxChanges}
    \cup {[updated |-> <<u>>, detail |-> <<d>>] : u \in Times, d \in OpenDetails}

ServerList(l) ==
    [i \in 1 .. Len(l.updated) |->
        Change(i, l.detail[i].Status, l.updated[i], l.detail[i].Submitted,
               l.detail[i].Revisions, l.detail[i].Messages)]

ServerThreads(l) == [i \in 1 .. Len(l.updated) |-> l.detail[i].Threads]

\* ------------------------------------------------------------------ state
VARIABLES
    \* the gateway of the polled project: its change listing (most recently
    \* updated first) and the comment threads of each change
    server, threads,
    \* the listing changed while the poll was running
    listChanged,
    \* gerritInstanceHandler.QueryChangesForProject: its arguments, its
    \* position and its locals
    lastUpdate, rateLimit, pc, start, page, idx, pending,
    \* what it returned: [changes, err]
    ret,
    \* what the gateway saw of the poll: the QueryChanges requests, the
    \* changes the loop body was entered for, each with the outcome of its
    \* ListChangeComments call
    requests, classified

VARIABLES
    \* Client.handlers: instance -> handler; a handler is its watched projects,
    \* the gateway that was constructed for it and the cookie installed on it
    handlers,
    \* how many gateways were constructed for each instance
    gens,
    \* Client.authentication (the source of the credential, "nil" when none)
    \* and Client.previousToken
    authentication, previousToken,
    \* the cookie file and the token file: whether each can be read, and its
    \* content
    files,
    \* the rotation loops started so far
    loops,
    \* the value the last call of auth() returned
    lastRead,
    \* the caller of Authenticate and the rotation loop: where each is, and
    \* the locals of its authenticateOnce
    rot,
    \* the UpdateClients call that holds the exclusive lock, with its argument
    \* and the instances for which gerrit.NewClient fails; the aggregate error
    \* the last UpdateClients call returned (the instances that failed)
    upd, updErr

VARIABLES
    \* the operation in progress on the Client (QueryChanges,
    \* QueryChangesForInstance or QueryChangesForProject), with its arguments
    op,
    \* Client.QueryChanges: the handlers not visited yet and the result map
    todoHandlers, result,
    \* queryAllChanges: the handler it runs on, timeNow, the projects not
    \* polled yet and its result
    handler, timeNow, todoProjects, changesOfHandler,
    \* the project being polled and the project polls of the operation so far
    project, polls,
    \* what the operation returned
    opRet

VARIABLES
    \* Client.accounts: instance -> the account its gateway reported
    accounts,
    \* the callers of Account: where each is and the instance it asked for
    acc,
    \* what the last Account call of each caller returned, and whether it
    \* called GetAccount
    accRet,
    \* how many times GetAccount succeeded for each instance
    lookups

VARIABLES
    \* the calls of GetChange, SetReview and GetBranchRevision in progress:
    \* the method, the instance it asked for and whether it found its handler
    readers

pollVars ==
    <<server, threads, listChanged, lastUpdate, rateLimit, pc, start, page, idx,
      pending, ret, requests, classified>>

regVars == <<handlers, gens, authentication, previousToken, files, loops, lastRead, rot,
      upd, updErr>>

fanVars ==
    <<op, todoHandlers, result, handler, timeNow, todoProjects, changesOfHandler,
      project, polls, opRet>>

accVars == <<accounts, acc, accRet, lookups>>

readVars == <<readers>>

vars == <<pollVars, regVars, fanVars, accVars, readVars>>

NoReturn == [changes |-> <<>>, err |-> FALSE]

\* ------------------------------------------------- injectPatchsetMessages
\* sort.SliceStable by Date: each message goes behind the messages that are
\* not later than it
InsertStable(sorted, m) ==
    LET k == Cardinality({i \in 1 .. Len(sorted) :
                 ~ (parseStamp(m.Date) < parseStamp(sorted[i].Date))})
    IN  SubSeq(sorted, 1, k) \o <<m>> \o SubSeq(sorted, k + 1, Len(sorted))

RECURSIVE SliceStable(_)
SliceStable(s) ==
    IF s = <<>> THEN <<>>
    ELSE InsertStable(SliceStable(SubSeq(s, 1, Len(s) - 1)), s[Len(s)])

\* the synthetic message of one comment
InjectedMessage(c) ==
    [Author |-> c.Author, RevisionNumber |-> c.PatchSet, Date |-> c.Updated,
     Message |-> c.Message]

\* a faulty injectPatchsetMessages that appends the synthetic messages and
\* does not sort
injectPatchsetMessagesUnsorted(change, outer) ==
    IF PatchsetLevel \notin DOMAIN outer THEN change
    ELSE LET comments == outer[PatchsetLevel]
             appended == change.Messages \o
                         [i \in 1 .. Len(comments) |-> InjectedMessage(comments[i])]
         IN  [change EXCEPT !.Messages = appended]

\* the change's messages after injectPatchsetMessages, given the thread map
\* ListChangeComments returned
injectPatchsetMessages(change, outer) ==
    IF PatchsetLevel \notin DOMAIN outer THEN change
    ELSE LET comments == outer[PatchsetLevel]
             appended == change.Messages \o
                         [i \in 1 .. Len(comments) |-> InjectedMessage(comments[i])]
         IN  IF Len(comments) > 0
             THEN [change EXCEPT !.Messages = SliceStable(appended)]
             ELSE change

\* --------------------- gerritInstanceHandler.QueryChangesForProject (poll)
\* the gateway's answer to QueryChanges(Start, Limit): the changes of the
\* listing from offset Start on, at most Limit of them
QueryChanges(listing, optStart, optLimit) ==
    SubSeq(listing, optStart + 1,
           IF optStart + optLimit < Len(listing) THEN optStart + optLimit ELSE Len(listing))

\* return from the poll
Return(changes, err) ==
    /\ pc' = "done"
    /\ ret' = [changes |-> changes, err |-> err]
    /\ page' = <<>>
    /\ idx' = 0

\* the end of one iteration of the loop over the page: the next change of the
\* page, or the next page
Continue ==
    /\ ret' = ret
    /\ IF idx < Len(page)
       THEN pc' = "loop" /\ idx' = idx + 1 /\ page' = page
       ELSE pc' = "query" /\ idx' = 0 /\ page' = <<>>

\* the loop body was entered for the change, with this outcome of its
\* ListChangeComments call ("none": not called)
Classified(change, fetch) ==
    classified' = Append(classified, [change |-> change, fetch |-> fetch])

\* entry of the poll, with its arguments
PollEntry(lu, rl) ==
    /\ lastUpdate' = lu
    /\ rateLimit' = rl
    /\ start' = 0
    /\ pending' = <<>>
    /\ pc' = "query"
    /\ page' = <<>>
    /\ idx' = 0
    /\ ret' = NoReturn
    /\ requests' = <<>>
    /\ classified' = <<>>
    /\ listChanged' = FALSE

\* a poll of the handler's project, called on the handler itself
Poll(lu, rl) ==
    /\ pc = "idle"
    /\ PollEntry(lu, rl)
    /\ UNCHANGED <<server, threads, regVars, fanVars, accVars, readVars>>

\* a faulty page request that does not advance the start offset
QueryPageSameOffset ==
    /\ pc = "query"
    /\ requests' = Append(requests, [Start |-> start, Limit |-> rateLimit])
    /\ LET changes == QueryChanges(server, start, rateLimit)
       IN  IF Len(changes) = 0
           THEN Return(pending, FALSE) /\ start' = start
           ELSE /\ start' = start
                /\ page' = changes
                /\ idx' = 1
                /\ pc' = "loop"
                /\ ret' = ret
    /\ UNCHANGED <<server, threads, listChanged, lastUpdate, rateLimit, pending, classified,
                   regVars, fanVars, accVars, readVars>>

\* one page request that the gateway answers
QueryPage ==
    /\ pc = "query"
    /\ requests' = Append(requests, [Start |-> start, Limit |-> rateLimit])
    /\ LET changes == QueryChanges(server, start, rateLimit)
       IN  IF Len(changes) = 0
           THEN Return(pending, FALSE) /\ start' = start
           ELSE /\ start' = start + Len(changes)
                /\ page' = changes
                /\ idx' = 1
                /\ pc' = "loop"
                /\ ret' = ret
    /\ UNCHANGED <<server, threads, listChanged, lastUpdate, rateLimit, pending, classified,
                   regVars, fanVars, accVars, readVars>>

\* a faulty page request that, failing, returns the changes accumulated so far
QueryPageFailsKeepsPending ==
    /\ pc = "query"
    /\ requests' = Append(requests, [Start |-> start, Limit |-> rateLimit])
    /\ Return(pending, TRUE)
    /\ UNCHANGED <<server, threads, listChanged, lastUpdate, rateLimit, start, pending, classified,
                   regVars, fanVars, accVars, readVars>>

\* one page request that fails
QueryPageFails ==
    /\ pc = "query"
    /\ requests' = Append(requests, [Start |-> start, Limit |-> rateLimit])
    /\ Return(<<>>, TRUE)
    /\ UNCHANGED <<server, threads, listChanged, lastUpdate, rateLimit, start, pending, classified,
                   regVars, fanVars, accVars, readVars>>

\* a faulty loop that skips a change last updated not after lastUpdate and
\* goes on
ClassifySkipsOld ==
    /\ pc = "loop"
    /\ LET change == page[idx]
           updated == parseStamp(change.Updated)
       IN  /\ ~ After(updated, lastUpdate)
           /\ Classified(change, "none")
           /\ Continue
    /\ UNCHANGED <<server, threads, listChanged, lastUpdate, rateLimit, start, pending, requests,
                   regVars, fanVars, accVars, readVars>>

\* a change last updated not after lastUpdate stops the poll
ClassifyStop ==
    /\ pc = "loop"
    /\ LET change == page[idx]
           updated == parseStamp(change.Updated)
       IN  /\ ~ After(updated, lastUpdate)
           /\ Classified(change, "none")
           /\ Return(pending, FALSE)
    /\ UNCHANGED <<server, threads, listChanged, lastUpdate, rateLimit, start, pending, requests,
                   regVars, fanVars, accVars, readVars>>

\* a faulty case Merged that does not look at the submission time
ClassifyMergedUnchecked ==
    /\ pc = "loop"
    /\ LET change == page[idx]
           updated == parseStamp(change.Updated)
       IN  /\ After(updated, lastUpdate)
           /\ change.Status = Merged
           /\ Classified(change, "none")
           /\ pending' = Append(pending, change)
           /\ Continue
    /\ UNCHANGED <<server, threads, listChanged, lastUpdate, rateLimit, start, requests,
                   regVars, fanVars, accVars, readVars>>

\* case Merged
ClassifyMerged ==
    /\ pc = "loop"
    /\ LET change == page[idx]
           updated == parseStamp(change.Updated)
           submitted == parseStamp(change.Submitted)
       IN  /\ After(updated, lastUpdate)
           /\ change.Status = Merged
           /\ Classified(change, "none")
           /\ IF ~ After(submitted, lastUpdate)
              THEN pending' = pending
              ELSE pending' = Append(pending, change)
           /\ Continue
    /\ UNCHANGED <<server, threads, listChanged, lastUpdate, rateLimit, start, requests,
                   regVars, fanVars, accVars, readVars>>

\* a faulty case New that ends the poll when the current revision is not in
\* the revision map
ClassifyRevisionNotFoundStops ==
    /\ pc = "loop"
    /\ LET change == page[idx]
           updated == parseStamp(change.Updated)
       IN  /\ After(updated, lastUpdate)
           /\ change.Status = New
           /\ change.CurrentRevision \notin DOMAIN change.Revisions
           /\ Classified(change, "none")
           /\ Return(pending, FALSE)
    /\ UNCHANGED <<server, threads, listChanged, lastUpdate, rateLimit, start, pending, requests,
                   regVars, fanVars, accVars, readVars>>

\* case New, the current revision is not in the revision map
ClassifyRevisionNotFound ==
    /\ pc = "loop"
    /\ LET change == page[idx]
           updated == parseStamp(change.Updated)
       IN  /\ After(updated, lastUpdate)
           /\ change.Status = New
           /\ change.CurrentRevision \notin DOMAIN change.Revisions
           /\ Classified(change, "none")
           /\ pending' = pending
           /\ Continue
    /\ UNCHANGED <<server, threads, listChanged, lastUpdate, rateLimit, start, requests,
                   regVars, fanVars, accVars, readVars>>

\* a faulty newMessages that counts the messages on every revision
newMessagesOnAnyRevision(changeMessages, rev, lu) ==
    \E i \in 1 .. Len(changeMessages) :
        After(parseStamp(changeMessages[i].Date), lu)

\* some message on the revision is dated after lastUpdate
newMessages(changeMessages, rev, lu) ==
    \E i \in 1 .. Len(changeMessages) :
        /\ changeMessages[i].RevisionNumber = rev.Number
        /\ After(parseStamp(changeMessages[i].Date), lu)

\* case New, the current revision is found; fetched: ListChangeComments
\* answered (otherwise it failed, which is logged)
ClassifyNew(fetched) ==
    /\ pc = "loop"
    /\ LET listed == page[idx]
           updated == parseStamp(listed.Updated)
       IN  /\ After(updated, lastUpdate)
           /\ listed.Status = New
           /\ listed.CurrentRevision \in DOMAIN listed.Revisions
           /\ LET rev == listed.Revisions[listed.CurrentRevision]
                  created == parseStamp(rev.Created)
                  change == IF fetched
                            THEN injectPatchsetMessages(listed, threads[listed.ID])
                            ELSE listed
              IN  /\ Classified(listed, IF fetched THEN "ok" ELSE "err")
                  /\ IF ~ newMessages(change.Messages, rev, lastUpdate)
                        /\ ~ After(created, lastUpdate)
                     THEN pending' = pending
                     ELSE pending' = Append(pending, change)
                  /\ Continue
    /\ UNCHANGED <<server, threads, listChanged, lastUpdate, rateLimit, start, requests,
                   regVars, fanVars, accVars, readVars>>

\* a faulty default case that keeps the change
ClassifyIgnoredKept ==
    /\ pc = "loop"
    /\ LET change == page[idx]
           updated == parseStamp(change.Updated)
       IN  /\ After(updated, lastUpdate)
           /\ change.Status \notin {Merged, New}
           /\ Classified(change, "none")
           /\ pending' = Append(pending, change)
           /\ Continue
    /\ UNCHANGED <<server, threads, listChanged, lastUpdate, rateLimit, start, requests,
                   regVars, fanVars, accVars, readVars>>

\* default: the change has been abandoned
ClassifyIgnored ==
    /\ pc = "loop"
    /\ LET change == page[idx]
           updated == parseStamp(change.Updated)
       IN  /\ After(updated, lastUpdate)
           /\ change.Status \notin {Merged, New}
           /\ Classified(change, "none")
           /\ pending' = pending
           /\ Continue
    /\ UNCHANGED <<server, threads, listChanged, lastUpdate, rateLimit, start, requests,
                   regVars, fanVars, accVars, readVars>>

\* the gateway's listing changes between two page requests of the poll: the
\* change at position i is updated at time t and moves to the front
ServerUpdate(i, t) ==
    /\ pc = "query"
    /\ Len(requests) > 0
    /\ ~ listChanged
    /\ i \in 1 .. Len(server)
    /\ t >= parseStamp(server[1].Updated)
    /\ server' = <<[server[i] EXCEPT !.Updated = Stamp(t)]>> \o
                  SubSeq(server, 1, i - 1) \o SubSeq(server, i + 1, Len(server))
    /\ listChanged' = TRUE
    /\ UNCHANGED <<threads, lastUpdate, rateLimit, pc, start, page, idx, pending, ret,
                   requests, classified, regVars, fanVars, accVars, readVars>>

\* ------------------------------------------------------------ the registry
Instances == {"i1", "i2"}

Projects == {"p1", "p2"}

\* at most MaxBuilds gateways are constructed for one instance
MaxBuilds == 2

\* instance -> watched projects: the argument of NewClient and UpdateClients
Configs == UNION {[S -> SUBSET Projects \ {{}}] : S \in SUBSET Instances}

NoCookie == ""

\* a handler bound to the n-th gateway constructed for the instance
NewHandler(instance, projects, n) ==
    [instance |-> instance, projects |-> projects, gateway |-> n, cookie |-> NoCookie]

NewClient(instances) ==
    [i \in DOMAIN instances |-> NewHandler(i, instances[i], 1)]

\* a faulty reconciliation that loses the cookie of a handler it keeps
RebuiltHandler(h, projects) == [h EXCEPT !.projects = projects, !.cookie = NoCookie]

\* an instance that is registered already keeps its handler, with the
\* projects of the new map
KeptHandler(h, projects) == [h EXCEPT !.projects = projects]

\* a faulty UpdateClients that changes nothing when a construction fails
newHandlersAllOrNothing(instances, failing) ==
    IF failing # {} THEN handlers
    ELSE [i \in DOMAIN instances |->
             IF i \in DOMAIN handlers
             THEN [handlers[i] EXCEPT !.projects = instances[i]]
             ELSE [instance |-> i, projects |-> instances[i], gateway |-> gens[i] + 1,
                   cookie |-> ""]]

\* the handlers UpdateClients records for the map; failing: the instances
\* for which gerrit.NewClient fails
newHandlers(instances, failing) ==
    [i \in {j \in DOMAIN instances : j \in DOMAIN handlers \/ j \notin failing} |->
        IF i \in DOMAIN handlers
        THEN KeptHandler(handlers[i], instances[i])
        ELSE NewHandler(i, instances[i], gens[i] + 1)]

NoUpdate == [active |-> FALSE, instances |-> <<>>, failing |-> {}]

\* the exclusive lock is held: by UpdateClients, by an authenticateOnce that
\* installs a credential, or by Account
Locked ==
    \/ upd.active
    \/ \E t \in DOMAIN rot : rot[t].pc = "install"
    \/ \E a \in DOMAIN acc : acc[a].pc \in {"locked", "get"}

\* the shared lock is held: a query operation is running
Reading ==
    \/ op.name # "none" /\ ~ op.done
    \/ \E r \in DOMAIN readers : readers[r].pc = "held"

\* a faulty UpdateClients that does not wait for the running queries
UpdateClientsAmongReaders(instances, failing) ==
    /\ ~ Locked
    /\ failing \subseteq DOMAIN instances \ DOMAIN handlers
    /\ \A i \in DOMAIN instances \ DOMAIN handlers : gens[i] < MaxBuilds
    /\ upd' = [active |-> TRUE, instances |-> instances, failing |-> failing]
    /\ UNCHANGED <<handlers, gens, authentication, previousToken, files, loops, lastRead, rot,
                   updErr, pollVars, fanVars, accVars, readVars>>

\* UpdateClients is called and takes the exclusive lock
UpdateClients(instances, failing) ==
    /\ ~ Locked /\ ~ Reading
    /\ failing \subseteq DOMAIN instances \ DOMAIN handlers
    /\ \A i \in DOMAIN instances \ DOMAIN handlers : gens[i] < MaxBuilds
    /\ upd' = [active |-> TRUE, instances |-> instances, failing |-> failing]
    /\ UNCHANGED <<handlers, gens, authentication, previousToken, files, loops, lastRead, rot,
                   updErr, pollVars, fanVars, accVars, readVars>>

\* UpdateClients under the lock: the loop over the map, the swap, the return
UpdateClientsSwap ==
    /\ upd.active
    /\ handlers' = newHandlers(upd.instances, upd.failing)
    /\ gens' = [i \in Instances |->
                  IF i \in DOMAIN upd.instances \ (DOMAIN handlers \cup upd.failing)
                  THEN gens[i] + 1 ELSE gens[i]]
    /\ updErr' = upd.failing
    /\ upd' = NoUpdate
    /\ UNCHANGED <<authentication, previousToken, files, loops, lastRead, rot, pollVars, fanVars, accVars, readVars>>

\* ------------------------------------------------------------- credentials
NoSource == "nil"

\* a credential file: whether it can be read, and its content in pieces, the
\* whitespace included
File(readable, raw) == [readable |-> readable, raw |-> raw]

Unreadable == File(FALSE, <<>>)

CookieFiles ==
    {Unreadable, File(TRUE, <<"host", " ", "c1", "\n">>), File(TRUE, <<"host", " ", "c2", "\n">>)}

TokenFiles == {Unreadable, File(TRUE, <<"k1", "\n">>)}

\* strings.Fields and strings.TrimSpace (of a content of one word)
Fields(raw) ==
    LET word(x) == x \notin {" ", "\n"}
    IN  SelectSeq(raw, word)

TrimSpace(raw) == Fields(raw)[1]

\* the source Authenticate selects: the cookie file takes precedence
SelectSource(cookiefilePath, tokenPath) ==
    IF cookiefilePath # "" THEN "cookiefile"
    ELSE IF tokenPath # "" THEN "tokenfile"
    ELSE NoSource

\* auth(): the credential the source holds, "" with an error when the file
\* cannot be read
ReadSource(auth) ==
    IF ~ files[auth].readable THEN [token |-> "", err |-> TRUE]
    ELSE IF auth = "cookiefile"
         THEN LET fields == Fields(files[auth].raw)
              IN  [token |-> fields[Len(fields)], err |-> FALSE]
         ELSE [token |-> TrimSpace(files[auth].raw), err |-> FALSE]

\* the callers of Authenticate, and the rotation loop it starts
Callers == {"caller", "caller2"}

Threads == Callers \cup {"loop"}

\* applied: the last authenticateOnce of the thread returned from its locked
\* section (line 274 on), not from the comparison (line 271)
Stopped ==
    [pc |-> "idle", auth |-> NoSource, current |-> "", err |-> FALSE, was |-> NoSource,
     todo |-> {}, applied |-> FALSE]

\* authenticateOnce returns: Authenticate goes on, the loop sleeps and calls
\* it again
AfterOnce(t) ==
    IF t \in Callers
    THEN [Stopped EXCEPT !.pc = "spawn", !.was = rot[t].was]
    ELSE [Stopped EXCEPT !.pc = "read"]

\* a faulty Authenticate that leaves the first rotation step to the loop
AuthenticateDeferred(t, cookiefilePath, tokenPath) ==
    LET auth == SelectSource(cookiefilePath, tokenPath)
    IN  /\ rot[t].pc = "idle"
        /\ IF auth = NoSource
           THEN UNCHANGED <<authentication, rot>>
           ELSE /\ ~ Locked /\ ~ Reading
                /\ authentication' = auth
                /\ rot' = [rot EXCEPT ![t] =
                              [Stopped EXCEPT !.pc = "spawn", !.was = authentication]]
        /\ UNCHANGED <<handlers, gens, previousToken, files, loops, lastRead, upd, updErr,
                       pollVars, fanVars, accVars, readVars>>

\* Authenticate up to its call of authenticateOnce: without a source it
\* returns, otherwise it installs the source under the exclusive lock
Authenticate(t, cookiefilePath, tokenPath) ==
    LET auth == SelectSource(cookiefilePath, tokenPath)
    IN  /\ rot[t].pc = "idle"
        /\ IF auth = NoSource
           THEN UNCHANGED <<authentication, rot>>
           ELSE /\ ~ Locked /\ ~ Reading
                /\ authentication' = auth
                /\ rot' = [rot EXCEPT ![t] =
                              [Stopped EXCEPT !.pc = "read", !.was = authentication]]
        /\ UNCHANGED <<handlers, gens, previousToken, files, loops, lastRead, upd, updErr,
                       pollVars, fanVars, accVars, readVars>>

\* authenticateOnce: auth := c.authentication, under the shared lock
authenticateOnceRead(t) ==
    /\ rot[t].pc = "read"
    /\ ~ Locked
    /\ rot' = [rot EXCEPT ![t].pc = "call", ![t].auth = authentication]
    /\ UNCHANGED <<handlers, gens, authentication, previousToken, files, loops, lastRead,
                   upd, updErr, pollVars, fanVars, accVars, readVars>>

\* authenticateOnce: current, err := auth(); an error is logged
authenticateOnceCall(t) ==
    /\ rot[t].pc = "call"
    /\ rot' = [rot EXCEPT ![t].pc = "compare",
                          ![t].current = ReadSource(rot[t].auth).token,
                          ![t].err = ReadSource(rot[t].auth).err]
    /\ lastRead' = ReadSource(rot[t].auth).token
    /\ UNCHANGED <<handlers, gens, authentication, previousToken, files, loops,
                   upd, updErr, pollVars, fanVars, accVars, readVars>>

\* a faulty authenticateOnce that goes on to its locked section whatever it
\* read
authenticateOnceCompareNever(t) ==
    /\ rot[t].pc = "compare"
    /\ rot' = [rot EXCEPT ![t].pc = "apply"]
    /\ UNCHANGED <<handlers, gens, authentication, previousToken, files, loops, lastRead,
                   upd, updErr, pollVars, fanVars, accVars, readVars>>

\* authenticateOnce: if current == c.previousToken { return }, holding no lock
authenticateOnceCompare(t) ==
    /\ rot[t].pc = "compare"
    /\ rot' = [rot EXCEPT ![t] = IF rot[t].current = previousToken
                                  THEN AfterOnce(t)
                                  ELSE [rot[t] EXCEPT !.pc = "apply"]]
    /\ UNCHANGED <<handlers, gens, authentication, previousToken, files, loops, lastRead,
                   upd, updErr, pollVars, fanVars, accVars, readVars>>

\* SetCookieAuth("o", value) on the handler's gateway
SetCookieAuth(h, value) == [h EXCEPT !.cookie = value]

\* a faulty authenticateOnce that does not wait for the running queries
authenticateOnceLockAmongReaders(t) ==
    /\ rot[t].pc = "apply"
    /\ ~ Locked
    /\ previousToken' = rot[t].current
    /\ rot' = [rot EXCEPT ![t].pc = "install", ![t].todo = DOMAIN handlers]
    /\ UNCHANGED <<handlers, gens, authentication, files, loops, lastRead, upd, updErr,
                   pollVars, fanVars, accVars, readVars>>

\* authenticateOnce: takes the exclusive lock and remembers the credential
authenticateOnceLock(t) ==
    /\ rot[t].pc = "apply"
    /\ ~ Locked /\ ~ Reading
    /\ previousToken' = rot[t].current
    /\ rot' = [rot EXCEPT ![t].pc = "install", ![t].todo = DOMAIN handlers]
    /\ UNCHANGED <<handlers, gens, authentication, files, loops, lastRead, upd, updErr,
                   pollVars, fanVars, accVars, readVars>>

\* authenticateOnce: the loop over the handlers installs the credential on the
\* gateway of the next handler
authenticateOnceSet(t, h) ==
    /\ rot[t].pc = "install"
    /\ h \in rot[t].todo
    /\ handlers' = [handlers EXCEPT ![h] = SetCookieAuth(handlers[h], rot[t].current)]
    /\ rot' = [rot EXCEPT ![t].todo = rot[t].todo \ {h}]
    /\ UNCHANGED <<gens, authentication, previousToken, files, loops, lastRead, upd, updErr,
                   pollVars, fanVars, accVars, readVars>>

\* authenticateOnce: every handler was visited; it returns and releases the
\* lock
authenticateOnceUnlock(t) ==
    /\ rot[t].pc = "install"
    /\ rot[t].todo = {}
    /\ rot' = [rot EXCEPT ![t] = [AfterOnce(t) EXCEPT !.applied = TRUE]]
    /\ UNCHANGED <<handlers, gens, authentication, previousToken, files, loops, lastRead,
                   upd, updErr, pollVars, fanVars, accVars, readVars>>

\* a faulty Authenticate that starts a rotation loop on every call
AuthenticateSpawnAlways(t) ==
    /\ t \in Callers
    /\ rot[t].pc = "spawn"
    /\ loops' = loops + 1
    /\ rot' = [rot EXCEPT ![t] = Stopped, !["loop"] = [Stopped EXCEPT !.pc = "read"]]
    /\ UNCHANGED <<handlers, gens, authentication, previousToken, files, lastRead, upd, updErr,
                   pollVars, fanVars, accVars, readVars>>

\* Authenticate after authenticateOnce: the call that found no source
\* installed starts the rotation loop
AuthenticateSpawn(t) ==
    /\ t \in Callers
    /\ rot[t].pc = "spawn"
    /\ IF rot[t].was = NoSource
       THEN /\ loops' = loops + 1
            /\ rot' = [rot EXCEPT ![t] = Stopped,
                                  !["loop"] = [Stopped EXCEPT !.pc = "read"]]
       ELSE /\ loops' = loops
            /\ rot' = [rot EXCEPT ![t] = Stopped]
    /\ UNCHANGED <<handlers, gens, authentication, previousToken, files, lastRead, upd, updErr,
                   pollVars, fanVars, accVars, readVars>>

\* the credential files change
FileChanges(f, content) ==
    /\ files[f] # content
    /\ files' = [files EXCEPT ![f] = content]
    /\ UNCHANGED <<handlers, gens, authentication, previousToken, loops, lastRead, rot,
                   upd, updErr, pollVars, fanVars, accVars, readVars>>

\* ---------------------------------------------------------- account cache
AccountCallers == {"a1", "a2"}

\* the account the n-th gateway of the instance reports for "self"
AccountInfo(instance, n) == [instance |-> instance, gateway |-> n]

NoAccount == [instance |-> "", gateway |-> 0]

AccountIdle == [pc |-> "idle", instance |-> ""]

\* what Account returns: the account or an error, and whether the call asked
\* the gateway
AccountReturn(instance, account, err, called) ==
    [instance |-> instance, account |-> account, err |-> err, called |-> called]

\* a faulty Account that does not take the lock
Account_NoLock(a, instance) ==
    /\ acc[a].pc = "idle"
    /\ acc' = [acc EXCEPT ![a] = [pc |-> "locked", instance |-> instance]]
    /\ UNCHANGED <<accounts, accRet, lookups, pollVars, regVars, fanVars, readVars>>

\* Account is called and takes the exclusive lock
Account_Lock(a, instance) ==
    /\ acc[a].pc = "idle"
    /\ ~ Locked /\ ~ Reading
    /\ acc' = [acc EXCEPT ![a] = [pc |-> "locked", instance |-> instance]]
    /\ UNCHANGED <<accounts, accRet, lookups, pollVars, regVars, fanVars, readVars>>

\* Account: the cached account is returned; without one, an instance that is
\* not registered is an error; otherwise the gateway is asked
Account_Check(a) ==
    /\ acc[a].pc = "locked"
    /\ LET instance == acc[a].instance
       IN  IF instance \in DOMAIN accounts
           THEN /\ accRet' = [accRet EXCEPT ![a] =
                                 AccountReturn(instance, accounts[instance], FALSE, FALSE)]
                /\ acc' = [acc EXCEPT ![a] = AccountIdle]
           ELSE IF instance \notin DOMAIN handlers
           THEN /\ accRet' = [accRet EXCEPT ![a] =
                                 AccountReturn(instance, NoAccount, TRUE, FALSE)]
                /\ acc' = [acc EXCEPT ![a] = AccountIdle]
           ELSE /\ accRet' = accRet
                /\ acc' = [acc EXCEPT ![a].pc = "get"]
    /\ UNCHANGED <<accounts, lookups, pollVars, regVars, fanVars, readVars>>

\* Account: GetAccount("self") answers or fails; the answer is stored
Account_GetAccount(a, ok) ==
    /\ acc[a].pc = "get"
    /\ LET instance == acc[a].instance
           self == AccountInfo(instance, handlers[instance].gateway)
       IN  IF ok
           THEN /\ accounts' = (instance :> self) @@ accounts
                /\ lookups' = [lookups EXCEPT ![instance] = lookups[instance] + 1]
                /\ accRet' = [accRet EXCEPT ![a] = AccountReturn(instance, self, FALSE, TRUE)]
           ELSE /\ UNCHANGED <<accounts, lookups>>
                /\ accRet' = [accRet EXCEPT ![a] =
                                 AccountReturn(instance, NoAccount, TRUE, TRUE)]
    /\ acc' = [acc EXCEPT ![a] = AccountIdle]
    /\ UNCHANGED <<pollVars, regVars, fanVars, readVars>>

\* ---------------------------------------------------------------- fan-out
\* LastSyncState: instance -> project -> the time of the last sync
\* (of project "p1" alone: the other projects were never synced)
LastSyncStates ==
    {[i \in S |-> "p1" :> t] : S \in {{}, {"i1"}, Instances}, t \in Times}

\* the instance maps of the Clients of the fan-out
FanConfigs ==
    {"i1" :> {"p1", "p2"}, ("i1" :> {"p1", "p2"}) @@ ("i2" :> {"p1"})}

\* lastState[instance]: the nil map when the instance is not in it
LastStateFor(lastState, instance) ==
    IF instance \in DOMAIN lastState THEN lastState[instance] ELSE <<>>

\* the listings the gateways of the fan-out hold
FanListings ==
    {[updated |-> <<>>, detail |-> <<>>],
     [updated |-> <<MaxTime, 1>>,
      detail |-> <<Detail(Merged, MaxTime, WithCurrent(MaxTime), <<>>, NoThreads),
                   Detail(New, 0, WithCurrent(1), <<>>, NoThreads)>>],
     [updated |-> <<MaxTime, 1>>,
      detail |-> <<Detail(New, 0, OldOnly, <<>>, NoThreads),
                   Detail(Abandoned, MaxTime, WithCurrent(MaxTime), <<>>, NoThreads)>>]}

NoOp ==
    [name |-> "none", instance |-> "", project |-> "", lastState |-> <<>>, rateLimit |-> 0,
     done |-> FALSE]

\* a faulty watermark: the zero time for a project without an entry
WatermarkZero(lastState, p, now) ==
    IF p \in DOMAIN lastState THEN lastState[p] ELSE 0

\* the watermark of a project: its entry in lastState, timeNow without one
Watermark(lastState, p, now) ==
    IF p \in DOMAIN lastState THEN lastState[p] ELSE now

\* a faulty queryAllChanges that gives up at the first poll that fails
RemainingUnlessFailed(todo, p, err) == IF err THEN {} ELSE todo \ {p}

\* the projects left to poll after the poll of p returned
RemainingProjects(todo, p, err) == todo \ {p}

\* the result of queryAllChanges after the poll of a project returned
Accumulated(changes, polled, err) ==
    IF err THEN changes ELSE changes \o polled

\* entry of queryAllChanges on the handler of the instance
queryAllChangesEntry(h, now) ==
    /\ handler' = h
    /\ timeNow' = now
    /\ todoProjects' = handlers[h].projects
    /\ changesOfHandler' = <<>>

\* Client.QueryChanges is called and takes the shared lock
QueryChanges_Call(lastState, rl) ==
    /\ op.name = "none"
    /\ ~ Locked
    /\ op' = [NoOp EXCEPT !.name = "QueryChanges", !.lastState = lastState, !.rateLimit = rl]
    /\ todoHandlers' = DOMAIN handlers
    /\ result' = <<>>
    /\ UNCHANGED <<handler, timeNow, todoProjects, changesOfHandler, project, polls, opRet,
                   pollVars, regVars, accVars, readVars>>

\* Client.QueryChanges: the next handler of the map
QueryChanges_Next(h, now) ==
    /\ op.name = "QueryChanges" /\ ~ op.done
    /\ handler = ""
    /\ h \in todoHandlers
    /\ queryAllChangesEntry(h, now)
    /\ UNCHANGED <<op, todoHandlers, result, project, polls, opRet, pollVars, regVars, accVars, readVars>>

\* Client.QueryChanges: every handler was visited
QueryChanges_Return ==
    /\ op.name = "QueryChanges" /\ ~ op.done
    /\ handler = ""
    /\ todoHandlers = {}
    /\ opRet' = result
    /\ op' = [op EXCEPT !.done = TRUE]
    /\ UNCHANGED <<todoHandlers, result, handler, timeNow, todoProjects, changesOfHandler,
                   project, polls, pollVars, regVars, accVars, readVars>>

\* a faulty QueryChangesForInstance that registers the instance it does not
\* find and polls it
QueryChangesForInstanceRegisters(instance, lastState, rl, now) ==
    /\ op.name = "none"
    /\ ~ Locked
    /\ op' = [NoOp EXCEPT !.name = "QueryChangesForInstance", !.instance = instance,
                          !.lastState = lastState, !.rateLimit = rl]
    /\ handlers' = IF instance \in DOMAIN handlers THEN handlers
                   ELSE (instance :> NewHandler(instance, Projects, gens[instance] + 1)) @@ handlers
    /\ handler' = instance
    /\ timeNow' = now
    /\ todoProjects' = handlers'[instance].projects
    /\ changesOfHandler' = <<>>
    /\ UNCHANGED <<todoHandlers, result, project, polls, opRet, pollVars, accVars, readVars, gens,
                   authentication, previousToken, files, loops, lastRead, rot, upd, updErr>>

\* Client.QueryChangesForInstance
QueryChangesForInstance(instance, lastState, rl, now) ==
    /\ op.name = "none"
    /\ ~ Locked
    /\ IF instance \notin DOMAIN handlers
       THEN /\ op' = [NoOp EXCEPT !.name = "QueryChangesForInstance", !.instance = instance,
                                  !.lastState = lastState, !.rateLimit = rl, !.done = TRUE]
            /\ opRet' = <<>>
            /\ UNCHANGED <<handler, timeNow, todoProjects, changesOfHandler>>
       ELSE /\ op' = [NoOp EXCEPT !.name = "QueryChangesForInstance", !.instance = instance,
                                  !.lastState = lastState, !.rateLimit = rl]
            /\ queryAllChangesEntry(instance, now)
            /\ opRet' = opRet
    /\ UNCHANGED <<todoHandlers, result, project, polls, pollVars, regVars, accVars, readVars>>

\* queryAllChanges: the next project of the handler is polled; l: the listing
\* its gateway holds
queryAllChanges_Poll(p, l) ==
    /\ handler # ""
    /\ pc = "idle"
    /\ p \in todoProjects
    /\ project' = p
    /\ server' = ServerList(l)
    /\ threads' = ServerThreads(l)
    /\ PollEntry(Watermark(LastStateFor(op.lastState, handler), p, timeNow), op.rateLimit)
    /\ UNCHANGED <<op, todoHandlers, result, handler, timeNow, todoProjects, changesOfHandler,
                   polls, opRet, regVars, accVars, readVars>>

\* queryAllChanges: the poll of the project returned
queryAllChanges_Polled ==
    /\ handler # ""
    /\ pc = "done"
    /\ polls' = Append(polls, [instance |-> handler, project |-> project,
                               lastUpdate |-> lastUpdate, timeNow |-> timeNow,
                               changes |-> ret.changes, err |-> ret.err])
    /\ changesOfHandler' = Accumulated(changesOfHandler, ret.changes, ret.err)
    /\ todoProjects' = RemainingProjects(todoProjects, project, ret.err)
    /\ project' = ""
    /\ pc' = "idle"
    /\ UNCHANGED <<op, todoHandlers, result, handler, timeNow, opRet, regVars, accVars, readVars, server, threads,
                   listChanged, lastUpdate, rateLimit, start, page, idx, pending, ret,
                   requests, classified>>

\* queryAllChanges returns to Client.QueryChanges or returns the result of
\* Client.QueryChangesForInstance
queryAllChanges_Return ==
    /\ handler # ""
    /\ pc = "idle"
    /\ todoProjects = {}
    /\ IF op.name = "QueryChanges"
       THEN /\ result' = IF Len(changesOfHandler) = 0 THEN result
                         ELSE (handler :> changesOfHandler) @@ result
            /\ todoHandlers' = todoHandlers \ {handler}
            /\ UNCHANGED <<op, opRet>>
       ELSE /\ opRet' = changesOfHandler
            /\ op' = [op EXCEPT !.done = TRUE]
            /\ UNCHANGED <<result, todoHandlers>>
    /\ handler' = ""
    /\ changesOfHandler' = <<>>
    /\ UNCHANGED <<timeNow, todoProjects, project, polls, pollVars, regVars, accVars, readVars>>

\* what Client.QueryChangesForProject returns
ProjectReturn(changes, err) == [changes |-> changes, err |-> err]

\* a faulty Client.QueryChangesForProject that does not look the project up
QueryChangesForProject_AnyProject(instance, p, lu, rl, l) ==
    /\ op.name = "none"
    /\ ~ Locked
    /\ IF instance \notin DOMAIN handlers
       THEN /\ op' = [NoOp EXCEPT !.name = "QueryChangesForProject", !.instance = instance,
                                  !.project = p, !.rateLimit = rl, !.done = TRUE]
            /\ opRet' = [changes |-> <<>>, err |-> TRUE]
            /\ UNCHANGED <<project, pollVars>>
       ELSE /\ op' = [NoOp EXCEPT !.name = "QueryChangesForProject", !.instance = instance,
                                  !.project = p, !.rateLimit = rl]
            /\ project' = p
            /\ server' = ServerList(l)
            /\ threads' = ServerThreads(l)
            /\ PollEntry(lu, rl)
            /\ opRet' = opRet
    /\ UNCHANGED <<todoHandlers, result, handler, timeNow, todoProjects, changesOfHandler,
                   polls, regVars, accVars, readVars>>

\* Client.QueryChangesForProject: the instance or the project is not
\* registered, or the project's poll starts; l: the listing its gateway holds
QueryChangesForProject_Call(instance, p, lu, rl, l) ==
    /\ op.name = "none"
    /\ ~ Locked
    /\ IF instance \notin DOMAIN handlers \/ p \notin handlers[instance].projects
       THEN /\ op' = [NoOp EXCEPT !.name = "QueryChangesForProject", !.instance = instance,
                                  !.project = p, !.rateLimit = rl, !.done = TRUE]
            /\ opRet' = ProjectReturn(<<>>, TRUE)
            /\ UNCHANGED <<project, pollVars>>
       ELSE /\ op' = [NoOp EXCEPT !.name = "QueryChangesForProject", !.instance = instance,
                                  !.project = p, !.rateLimit = rl]
            /\ project' = p
            /\ server' = ServerList(l)
            /\ threads' = ServerThreads(l)
            /\ PollEntry(lu, rl)
            /\ opRet' = opRet
    /\ UNCHANGED <<todoHandlers, result, handler, timeNow, todoProjects, changesOfHandler,
                   polls, regVars, accVars, readVars>>

\* Client.QueryChangesForProject: the poll returned
QueryChangesForProject_Return ==
    /\ op.name = "QueryChangesForProject" /\ ~ op.done
    /\ pc = "done"
    /\ opRet' = IF ret.err THEN ProjectReturn(<<>>, TRUE) ELSE ProjectReturn(ret.changes, FALSE)
    /\ op' = [op EXCEPT !.done = TRUE]
    /\ pc' = "idle"
    /\ UNCHANGED <<todoHandlers, result, handler, timeNow, todoProjects, changesOfHandler,
                   project, polls, regVars, accVars, readVars, server, threads, listChanged, lastUpdate,
                   rateLimit, start, page, idx, pending, ret, requests, classified>>

\* ------------------------------ GetChange, SetReview and GetBranchRevision
ReaderIds == {"r1", "r2"}

ReaderOps == {"GetChange", "SetReview", "GetBranchRevision"}

ReaderIdle == [pc |-> "idle", name |-> "", instance |-> "", found |-> FALSE]

\* the method takes the shared lock and looks the handler of the instance up
Reader_RLock(r, name, instance) ==
    /\ readers[r].pc = "idle"
    /\ ~ Locked
    /\ readers' = [readers EXCEPT ![r] = [pc |-> "held", name |-> name, instance |-> instance,
                                          found |-> instance \in DOMAIN handlers]]
    /\ UNCHANGED <<pollVars, regVars, fanVars, accVars>>

\* the method returns, after the call of its handler's gateway when it found
\* the handler, and releases the shared lock
Reader_Return(r) ==
    /\ readers[r].pc = "held"
    /\ readers' = [readers EXCEPT ![r] = ReaderIdle]
    /\ UNCHANGED <<pollVars, regVars, fanVars, accVars>>

\* ---------------------------------------------------------- specifications
\* no poll is running
PollIdle ==
    /\ listChanged = FALSE
    /\ lastUpdate = 0
    /\ rateLimit = 1
    /\ pc = "idle"
    /\ start = 0
    /\ page = <<>>
    /\ idx = 0
    /\ pending = <<>>
    /\ ret = NoReturn
    /\ requests = <<>>
    /\ classified = <<>>

\* no fan-out operation is running
FanIdle ==
    /\ op = NoOp
    /\ todoHandlers = {}
    /\ result = <<>>
    /\ handler = ""
    /\ timeNow = 0
    /\ todoProjects = {}
    /\ changesOfHandler = <<>>
    /\ project = ""
    /\ polls = <<>>
    /\ opRet = <<>>

\* the Client that NewClient(instances) returns
InitClient(instances) ==
    /\ handlers = NewClient(instances)
    /\ gens = [i \in Instances |-> IF i \in DOMAIN instances THEN 1 ELSE 0]
    /\ authentication = NoSource
    /\ previousToken = ""
    /\ loops = 0
    /\ lastRead = ""
    /\ rot = [t \in Threads |-> Stopped]
    /\ upd = NoUpdate
    /\ updErr = {}
    /\ accounts = <<>>
    /\ acc = [a \in AccountCallers |-> AccountIdle]
    /\ accRet = [a \in AccountCallers |-> AccountReturn("", NoAccount, FALSE, FALSE)]
    /\ lookups = [i \in Instances |-> 0]
    /\ readers = [r \in ReaderIds |-> ReaderIdle]

\* one handler, constructed for a project whose gateway holds some listing
InitPoll ==
    /\ \E l \in Listings :
          /\ server = ServerList(l)
          /\ threads = ServerThreads(l)
    /\ InitClient("i1" :> {"p1"})
    /\ files = [cookiefile |-> Unreadable, tokenfile |-> Unreadable]
    /\ FanIdle
    /\ listChanged = FALSE
    /\ lastUpdate = 0
    /\ rateLimit = 1
    /\ pc = "idle"
    /\ start = 0
    /\ page = <<>>
    /\ idx = 0
    /\ pending = <<>>
    /\ ret = NoReturn
    /\ requests = <<>>
    /\ classified = <<>>

NextPoll ==
    \/ \E lu \in Times, rl \in 1 .. MaxRate : Poll(lu, rl)
    \/ QueryPage
    \/ QueryPageFails
    \/ ClassifyStop
    \/ ClassifyMerged
    \/ ClassifyRevisionNotFound
    \/ \E fetched \in BOOLEAN : ClassifyNew(fetched)
    \/ ClassifyIgnored
    \/ \E i \in 1 .. MaxChanges, t \in Times : ServerUpdate(i, t)

SpecPoll == InitPoll /\ [][NextPoll]_vars

\* the registry: a Client, reconfigured and authenticated
InitRegistry ==
    /\ \E instances \in Configs : InitClient(instances)
    /\ files = [cookiefile |-> File(TRUE, <<"host", " ", "c1", "\n">>),
                tokenfile |-> File(TRUE, <<"k1", "\n">>)]
    /\ server = <<>>
    /\ threads = <<>>
    /\ PollIdle
    /\ FanIdle

NextRegistry ==
    \/ \E instances \in Configs, failing \in SUBSET Instances :
          UpdateClients(instances, failing)
    \/ UpdateClientsSwap
    \/ \E tokenPath \in {"", "token"} : Authenticate("caller", "cookies", tokenPath)
    \/ authenticateOnceRead("caller")
    \/ authenticateOnceCall("caller")
    \/ authenticateOnceCompare("caller")
    \/ authenticateOnceLock("caller")
    \/ \E h \in Instances : authenticateOnceSet("caller", h)
    \/ authenticateOnceUnlock("caller")
    \/ AuthenticateSpawn("caller")

SpecRegistry == InitRegistry /\ [][NextRegistry]_vars

\* the fan-out operations on a Client
InitFanout ==
    /\ \E instances \in FanConfigs : InitClient(instances)
    /\ files = [cookiefile |-> Unreadable, tokenfile |-> Unreadable]
    /\ server = <<>>
    /\ threads = <<>>
    /\ PollIdle
    /\ FanIdle

NextFanout ==
    \/ \E lastState \in LastSyncStates, rl \in 1 .. MaxRate : QueryChanges_Call(lastState, rl)
    \/ \E h \in Instances, now \in Times : QueryChanges_Next(h, now)
    \/ QueryChanges_Return
    \/ \E instance \in Instances, lastState \in LastSyncStates, rl \in 1 .. MaxRate,
          now \in Times : QueryChangesForInstance(instance, lastState, rl, now)
    \/ \E instance \in Instances, p \in Projects, lu \in Times, rl \in 1 .. MaxRate,
          l \in FanListings : QueryChangesForProject_Call(instance, p, lu, rl, l)
    \/ QueryChangesForProject_Return
    \/ \E p \in Projects, l \in FanListings : queryAllChanges_Poll(p, l)
    \/ queryAllChanges_Polled
    \/ queryAllChanges_Return
    \/ QueryPage
    \/ QueryPageFails
    \/ ClassifyStop
    \/ ClassifyMerged
    \/ ClassifyRevisionNotFound
    \/ \E fetched \in BOOLEAN : ClassifyNew(fetched)
    \/ ClassifyIgnored

SpecFanout == InitFanout /\ [][NextFanout]_vars

\* the maps UpdateClients is called with before a lookup
LookupUpdates == {"i2" :> {"p1"}, "i1" :> {"p2"}}

\* the sync states of the lookups
LookupStates == {<<>>, "i1" :> ("p1" :> 0)}

\* lookups of an instance and of a project in a registry that is reconfigured
NextLookup ==
    \/ \E instances \in LookupUpdates, failing \in SUBSET Instances :
          UpdateClients(instances, failing)
    \/ UpdateClientsSwap
    \/ \E instance \in Instances, lastState \in LookupStates, now \in {0, MaxTime} :
          QueryChangesForInstance(instance, lastState, 1, now)
    \/ \E instance \in Instances, p \in Projects, lu \in {0, MaxTime}, l \in FanListings :
          QueryChangesForProject_Call(instance, p, lu, 1, l)
    \/ QueryChangesForProject_Return
    \/ \E p \in Projects, l \in FanListings : queryAllChanges_Poll(p, l)
    \/ queryAllChanges_Polled
    \/ queryAllChanges_Return
    \/ QueryPage
    \/ QueryPageFails
    \/ ClassifyStop
    \/ ClassifyMerged
    \/ ClassifyRevisionNotFound
    \/ \E fetched \in BOOLEAN : ClassifyNew(fetched)
    \/ ClassifyIgnored

SpecLookup == InitFanout /\ [][NextLookup]_vars

\* the rotation of the credential: Authenticate is called by two callers
\* while the rotation loop runs and the cookie file changes
InitRotation ==
    /\ InitClient("i1" :> {"p1"})
    /\ files = [cookiefile |-> File(TRUE, <<"host", " ", "c1", "\n">>),
                tokenfile |-> File(TRUE, <<"k1", "\n">>)]
    /\ server = <<>>
    /\ threads = <<>>
    /\ PollIdle
    /\ FanIdle

NextRotation ==
    \/ \E t \in Callers, cookiefilePath \in {"", "cookies"}, tokenPath \in {"", "token"} :
          Authenticate(t, cookiefilePath, tokenPath)
    \/ \E t \in Threads : authenticateOnceRead(t)
    \/ \E t \in Threads : authenticateOnceCall(t)
    \/ \E t \in Threads : authenticateOnceCompare(t)
    \/ \E t \in Threads : authenticateOnceLock(t)
    \/ \E t \in Threads, h \in Instances : authenticateOnceSet(t, h)
    \/ \E t \in Threads : authenticateOnceUnlock(t)
    \/ \E t \in Callers : AuthenticateSpawn(t)
    \/ \E content \in CookieFiles : FileChanges("cookiefile", content)

SpecRotation == InitRotation /\ [][NextRotation]_vars

\* a project of one of two instances is polled while the credential is rotated
InitAtomic ==
    /\ InitClient(("i1" :> {"p1"}) @@ ("i2" :> {"p1"}))
    /\ files = [cookiefile |-> File(TRUE, <<"host", " ", "c1", "\n">>),
                tokenfile |-> File(TRUE, <<"k1", "\n">>)]
    /\ server = <<>>
    /\ threads = <<>>
    /\ PollIdle
    /\ FanIdle

NextAtomic ==
    \/ Authenticate("caller", "cookies", "")
    \/ \E t \in {"caller", "loop"} : authenticateOnceRead(t)
    \/ \E t \in {"caller", "loop"} : authenticateOnceCall(t)
    \/ \E t \in {"caller", "loop"} : authenticateOnceCompare(t)
    \/ \E t \in {"caller", "loop"} : authenticateOnceLock(t)
    \/ \E t \in {"caller", "loop"}, h \in Instances : authenticateOnceSet(t, h)
    \/ \E t \in {"caller", "loop"} : authenticateOnceUnlock(t)
    \/ AuthenticateSpawn("caller")
    \/ \E content \in CookieFiles \ {Unreadable} : FileChanges("cookiefile", content)
    \/ \E l \in FanListings, lu \in {0, 1} : QueryChangesForProject_Call("i1", "p1", lu, 1, l)
    \/ QueryChangesForProject_Return
    \/ QueryPage
    \/ QueryPageFails
    \/ ClassifyStop
    \/ ClassifyMerged
    \/ ClassifyRevisionNotFound
    \/ \E fetched \in BOOLEAN : ClassifyNew(fetched)
    \/ ClassifyIgnored

SpecAtomic == InitAtomic /\ [][NextAtomic]_vars

\* the maps UpdateClients is called with while accounts are looked up: "i2"
\* is dropped and registered again
AccountUpdates == {"i1" :> {"p1"}, ("i1" :> {"p1"}) @@ ("i2" :> {"p1"})}

\* two callers of Account, in a registry that is reconfigured and whose
\* credential is installed
InitAccount ==
    /\ \E instances \in FanConfigs : InitClient(instances)
    /\ files = [cookiefile |-> File(TRUE, <<"host", " ", "c1", "\n">>),
                tokenfile |-> File(TRUE, <<"k1", "\n">>)]
    /\ server = <<>>
    /\ threads = <<>>
    /\ PollIdle
    /\ FanIdle

NextAccount ==
    \/ \E instances \in AccountUpdates : UpdateClients(instances, {})
    \/ UpdateClientsSwap
    \/ \E a \in AccountCallers, instance \in Instances : Account_Lock(a, instance)
    \/ \E a \in AccountCallers : Account_Check(a)
    \/ \E a \in AccountCallers, ok \in BOOLEAN : Account_GetAccount(a, ok)
    \/ Authenticate("caller", "cookies", "")
    \/ authenticateOnceRead("caller")
    \/ authenticateOnceCall("caller")
    \/ authenticateOnceCompare("caller")
    \/ authenticateOnceLock("caller")
    \/ \E h \in Instances : authenticateOnceSet("caller", h)
    \/ authenticateOnceUnlock("caller")
    \/ AuthenticateSpawn("caller")

SpecAccount == InitAccount /\ [][NextAccount]_vars

\* one caller of Authenticate, with every combination of a cookie path and a
\* token path, on a Client of two handlers whose cookie file changes
NextFirst ==
    \/ \E cookiefilePath \in {"", "cookies"}, tokenPath \in {"", "token"} :
          Authenticate("caller", cookiefilePath, tokenPath)
    \/ \E t \in {"caller", "loop"} :
          \/ authenticateOnceRead(t)
          \/ authenticateOnceCall(t)
          \/ authenticateOnceCompare(t)
          \/ authenticateOnceLock(t)
          \/ \E h \in Instances : authenticateOnceSet(t, h)
          \/ authenticateOnceUnlock(t)
    \/ AuthenticateSpawn("caller")
    \/ \E content \in CookieFiles \ {Unreadable} : FileChanges("cookiefile", content)

SpecFirst == InitAtomic /\ [][NextFirst]_vars

\* the maps UpdateClients is called with while queries run
ReaderUpdates == {"i2" :> {"p1"}, ("i1" :> {"p2"}) @@ ("i2" :> {"p1", "p2"})}

\* query operations in a registry that is reconfigured
NextReaders ==
    \/ \E instances \in ReaderUpdates : UpdateClients(instances, {})
    \/ UpdateClientsSwap
    \/ \E r \in ReaderIds, name \in ReaderOps : Reader_RLock(r, name, "i1")
    \/ \E r \in ReaderIds : Reader_Return(r)
    \/ QueryChanges_Call(<<>>, 1)
    \/ \E h \in Instances : QueryChanges_Next(h, 0)
    \/ QueryChanges_Return
    \/ \E instance \in Instances : QueryChangesForInstance(instance, <<>>, 1, 0)
    \/ \E instance \in Instances, p \in Projects, l \in FanListings :
          QueryChangesForProject_Call(instance, p, 0, 1, l)
    \/ QueryChangesForProject_Return
    \/ \E p \in Projects, l \in FanListings : queryAllChanges_Poll(p, l)
    \/ queryAllChanges_Polled
    \/ queryAllChanges_Return
    \/ QueryPage
    \/ QueryPageFails
    \/ ClassifyMerged
    \/ ClassifyRevisionNotFound
    \/ \E fetched \in BOOLEAN : ClassifyNew(fetched)
    \/ ClassifyIgnored

SpecReaders == InitFanout /\ [][NextReaders]_vars

\* -------------------------------- the poll of one open change with comments
\* the native messages of the change: up to two, in any order of their dates
InjectNative ==
    {<<>>} \cup {<<ChangeMessage(2, t, "m1")>> : t \in Times}
    \cup {<<ChangeMessage(2, t, "m1"), ChangeMessage(2, u, "m2")>> : t, u \in Times}

\* the comments of a thread: up to two, in any order of their dates
InjectComments ==
    {<<>>} \cup {<<Comment(2, t, "c1")>> : t \in Times}
    \cup {<<Comment(2, t, "c1"), Comment(1, u, "c2")>> : t, u \in Times}

FileThread == "file.go" :> <<Comment(2, MaxTime, "f")>>

\* what ListChangeComments returns: a map from the path of a thread to its
\* comments, with or without the patchset-level thread
InjectThreads ==
    {NoThreads, FileThread}
    \cup {PatchsetLevel :> cs : cs \in InjectComments}
    \cup {(PatchsetLevel :> cs) @@ FileThread : cs \in InjectComments}

\* the listing holds one open change whose current revision is new
InitInject ==
    /\ \E native \in InjectNative, outer \in InjectThreads :
          /\ server = <<Change(1, New, MaxTime, 0, WithCurrent(MaxTime), native)>>
          /\ threads = <<outer>>
    /\ InitClient("i1" :> {"p1"})
    /\ files = [cookiefile |-> Unreadable, tokenfile |-> Unreadable]
    /\ FanIdle
    /\ PollIdle

NextInject ==
    \/ \E rl \in 1 .. MaxRate : Poll(0, rl)
    \/ QueryPage
    \/ QueryPageFails
    \/ \E fetched \in BOOLEAN : ClassifyNew(fetched)

SpecInject == InitInject /\ [][NextInject]_vars

\* ------------------------------------------------------------------ claims
IDs(changes) == [i \in 1 .. Len(changes) |-> changes[i].ID]

\* ListChangeComments answered for the change during the poll
Fetched(id) ==
    \E k \in 1 .. Len(classified) :
        classified[k].change.ID = id /\ classified[k].fetch = "ok"

\* a message of the listed change, or a comment of the patchset-level thread
\* in outer, is on the change's current revision number and dated after lu
FreshOnCurrent(change, outer, lu) ==
    LET number == change.Revisions[change.CurrentRevision].Number
    IN  \/ \E i \in 1 .. Len(change.Messages) :
              /\ change.Messages[i].RevisionNumber = number
              /\ change.Messages[i].Date.Time > lu
        \/ /\ PatchsetLevel \in DOMAIN outer
           /\ \E i \in 1 .. Len(outer[PatchsetLevel]) :
                 /\ outer[PatchsetLevel][i].PatchSet = number
                 /\ outer[PatchsetLevel][i].Updated.Time > lu

\* the listed change had activity after lu, outer being the comment threads
\* obtained for it
Activity(change, outer, lu) ==
    /\ change.Updated.Time > lu
    /\ \/ change.Status = Merged /\ change.Submitted.Time > lu
       \/ /\ change.Status = New
          /\ change.CurrentRevision \in DOMAIN change.Revisions
          /\ \/ change.Revisions[change.CurrentRevision].Created.Time > lu
             \/ FreshOnCurrent(change, outer, lu)

ObtainedThreads(change) == IF Fetched(change.ID) THEN threads[change.ID] ELSE NoThreads

\* C1: against a gateway that serves one fixed listing sorted by last update
\* descending and answers every page request, the poll returns exactly the
\* changes of the listing with activity after lastUpdate, in listing order.
C1_ExactlyTheActiveChanges ==
    (pc = "done" /\ ~ ret.err /\ ~ listChanged) =>
        LET Active(change) == Activity(change, ObtainedThreads(change), lastUpdate)
        IN  IDs(ret.changes) = IDs(SelectSeq(server, Active))

\* a poll over several pages returned some changes of the listing and left
\* others out
C1_Witness ==
    /\ pc = "done" /\ ~ ret.err /\ ~ listChanged
    /\ Len(requests) >= 2
    /\ Len(ret.changes) >= 1
    /\ Len(ret.changes) < Len(server)

\* the k-th classified change was last updated not after lastUpdate
Known(k) == ~ (classified[k].change.Updated.Time > lastUpdate)

\* C2: as soon as a change last updated at or before lastUpdate (ties
\* included) is met, the poll returns the changes accumulated so far; no
\* later change is classified and no page is requested afterwards.
C2_EarlyTermination ==
    /\ [](\A k \in 1 .. Len(classified) :
            Known(k) => /\ k = Len(classified)
                        /\ pc = "done"
                        /\ ret = [changes |-> pending, err |-> FALSE])
    /\ [][(\E k \in 1 .. Len(classified) : Known(k)) =>
            /\ requests' = requests
            /\ classified' = classified
            /\ ret' = ret]_vars

\* the poll met on its second page a change updated exactly at lastUpdate and
\* returned the change it had accumulated from the first page
C2_Witness ==
    /\ pc = "done"
    /\ Len(requests) = 2
    /\ Len(classified) = 2
    /\ classified[2].change.Updated.Time = lastUpdate
    /\ Len(ret.changes) = 1

NoDuplicates(changes) ==
    \A i, j \in 1 .. Len(changes) : changes[i].ID = changes[j].ID => i = j

\* s is t with some elements left out
RECURSIVE IsSubSeq(_, _)
IsSubSeq(s, t) ==
    IF s = <<>> THEN TRUE
    ELSE IF t = <<>> THEN FALSE
    ELSE IF Head(s) = Head(t) THEN IsSubSeq(Tail(s), Tail(t))
    ELSE IsSubSeq(s, Tail(t))

\* the changes of the result are in the order the gateway returned them
InReturnedOrder ==
    IsSubSeq(IDs(pending), [k \in 1 .. Len(classified) |-> classified[k].change.ID])

\* C3: the result of a poll holds no change identifier twice and keeps the
\* order in which the gateway returned the changes, also when the listing
\* changes between two page requests of the poll.
C3_DeduplicatedAndOrdered ==
    /\ NoDuplicates(pending)
    /\ InReturnedOrder

\* the listing changed between two page requests and the poll returned the
\* same change twice
C3_Witness ==
    /\ pc = "done" /\ ~ ret.err /\ listChanged
    /\ ~ NoDuplicates(ret.changes)

StaleMerge(change) ==
    /\ change.Status = Merged
    /\ change.Updated.Time > lastUpdate
    /\ ~ (change.Submitted.Time > lastUpdate)

\* C4: a MERGED change submitted at or before lastUpdate is never in a poll
\* result, even when it was updated after lastUpdate, and the poll goes on
\* with the next change.
C4_StaleMergeExcluded ==
    /\ [](\A i \in 1 .. Len(pending) :
            ~ (pending[i].Status = Merged /\ ~ (pending[i].Submitted.Time > lastUpdate)))
    /\ [][(pc = "loop" /\ StaleMerge(page[idx])) =>
            /\ pending' = pending
            /\ pc' \in {"loop", "query"}
            /\ pc' = "loop" => (page' = page /\ idx' = idx + 1)]_vars

\* a stale merge was skipped, and a change met after it is in the result
C4_Witness ==
    /\ pc = "done"
    /\ \E k \in 1 .. Len(classified) :
          /\ StaleMerge(classified[k].change)
          /\ \E j \in k + 1 .. Len(classified) :
                \E i \in 1 .. Len(ret.changes) : ret.changes[i].ID = classified[j].change.ID

\* an open change updated after lastUpdate whose current revision is in its
\* revision map
OpenWithCurrent(change) ==
    /\ change.Status = New
    /\ change.Updated.Time > lastUpdate
    /\ change.CurrentRevision \in DOMAIN change.Revisions

\* the comment threads the step obtained for the change it classified
StepThreads ==
    IF classified'[Len(classified')].fetch = "ok"
    THEN threads[page[idx].ID] ELSE NoThreads

\* C6: an open change updated after lastUpdate, its current revision present,
\* is included in the result if and only if a message (native or injected
\* from the patchset-level comments) on the current revision number is dated
\* after lastUpdate or the current revision was created after lastUpdate.
C6_OpenChangeClassification ==
    [][(pc = "loop" /\ OpenWithCurrent(page[idx])) =>
        LET change == page[idx]
            fresh == \/ change.Revisions[change.CurrentRevision].Created.Time > lastUpdate
                     \/ FreshOnCurrent(change, StepThreads, lastUpdate)
        IN  /\ fresh => /\ Len(pending') = Len(pending) + 1
                         /\ pending'[Len(pending')].ID = change.ID
                         /\ SubSeq(pending', 1, Len(pending)) = pending
            /\ ~ fresh => pending' = pending]_vars

\* an open change is in the result because of an injected comment alone: its
\* current revision and its native messages are not after lastUpdate
C6_Witness ==
    \E k \in 1 .. Len(classified) :
        LET change == classified[k].change
        IN  /\ OpenWithCurrent(change)
            /\ classified[k].fetch = "ok"
            /\ ~ (change.Revisions[change.CurrentRevision].Created.Time > lastUpdate)
            /\ ~ FreshOnCurrent(change, NoThreads, lastUpdate)
            /\ Len(change.Messages) = 1
            /\ change.Messages[1].RevisionNumber = 1
            /\ change.Messages[1].Date.Time > lastUpdate
            /\ \E i \in 1 .. Len(pending) : pending[i].ID = change.ID

\* no change of the sequence has a status other than NEW and MERGED
OnlyNewOrMerged(changes) ==
    \A i \in 1 .. Len(changes) : changes[i].Status \in {New, Merged}

\* what the operations on the Client hold and return has only NEW and MERGED
\* changes
ResultsOnlyNewOrMerged ==
    /\ OnlyNewOrMerged(pending)
    /\ OnlyNewOrMerged(ret.changes)
    /\ OnlyNewOrMerged(changesOfHandler)
    /\ \A i \in DOMAIN result : OnlyNewOrMerged(result[i])
    /\ \A k \in 1 .. Len(polls) : OnlyNewOrMerged(polls[k].changes)
    /\ op.done =>
          CASE op.name = "QueryChanges" -> \A i \in DOMAIN opRet : OnlyNewOrMerged(opRet[i])
            [] op.name = "QueryChangesForInstance" -> OnlyNewOrMerged(opRet)
            [] OTHER -> OnlyNewOrMerged(opRet.changes)

\* the loop of the poll is at a change that is neither NEW nor MERGED
AtIgnored == pc = "loop" /\ page[idx].Status \notin {New, Merged}

\* C5: a change that is neither NEW nor MERGED is in the result of no poll
\* operation (QueryChanges, QueryChangesForInstance, QueryChangesForProject),
\* and meeting one that was updated after lastUpdate does not stop the
\* pagination: the poll goes on with the next change or the next page.
C5_AbandonedExcluded ==
    /\ []ResultsOnlyNewOrMerged
    /\ [][(AtIgnored /\ page[idx].Updated.Time > lastUpdate) =>
            /\ pending' = pending
            /\ pc' \in {"loop", "query"}
            /\ pc' = "loop" => (page' = page /\ idx' = idx + 1)]_vars

\* C5 as stated: meeting a change that is neither NEW nor MERGED never stops
\* the pagination, whatever its timestamps are.
C5_NeverStops ==
    /\ []ResultsOnlyNewOrMerged
    /\ [][AtIgnored => pc' # "done"]_vars

\* a fan-out operation returned, one of its polls having met an abandoned
\* change updated after lastUpdate and requested another page after it
C5_Witness ==
    /\ op.done /\ op.name \in {"QueryChanges", "QueryChangesForInstance"}
    /\ \E k \in 1 .. Len(classified) :
          /\ classified[k].change.Status = Abandoned
          /\ classified[k].change.Updated.Time > lastUpdate
    /\ Len(classified) = Len(server)
    /\ Len(requests) > Len(server)

\* the sync state of the instance of the k-th project poll
StateOfPoll(k) == LastStateFor(op.lastState, polls[k].instance)

\* all changes of the sequence were last updated after t
AllAfter(changes, t) ==
    \A i \in 1 .. Len(changes) : changes[i].Updated.Time > t

\* C7: in QueryChanges and QueryChangesForInstance a project that is absent
\* from the sync state is polled with the time the instance poll started as
\* its watermark, and its poll returns no change updated at or before that
\* time; a project present in the sync state is polled with its stored
\* watermark.
C7_PristineWatermark ==
    /\ \A k \in 1 .. Len(polls) :
          IF polls[k].project \in DOMAIN StateOfPoll(k)
          THEN polls[k].lastUpdate = StateOfPoll(k)[polls[k].project]
          ELSE /\ polls[k].lastUpdate = polls[k].timeNow
               /\ AllAfter(polls[k].changes, polls[k].timeNow)
    /\ (handler # "" /\ pc # "idle") =>
          IF project \in DOMAIN LastStateFor(op.lastState, handler)
          THEN lastUpdate = LastStateFor(op.lastState, handler)[project]
          ELSE lastUpdate = timeNow /\ AllAfter(pending, timeNow)
    /\ (op.done /\ op.name = "QueryChangesForInstance"
          /\ op.instance \notin DOMAIN op.lastState) => AllAfter(opRet, timeNow)

\* the poll of a project absent from the sync state returned one change and
\* left out the backlog (a change of the listing updated at the time the
\* instance poll started), and the poll of a project present in the sync state
\* ran with a stored watermark that is not the time the instance poll started
C7_Witness ==
    /\ Len(polls) >= 2
    /\ LET k == Len(polls)
       IN  /\ polls[k].project \notin DOMAIN StateOfPoll(k)
           /\ Len(polls[k].changes) = 1
           /\ Len(server) = 2
           /\ server[2].Updated.Time = polls[k].timeNow
    /\ \E k \in 1 .. Len(polls) :
          /\ polls[k].project \in DOMAIN StateOfPoll(k)
          /\ polls[k].lastUpdate # polls[k].timeNow

\* the UpdateClients call that holds the lock returns in this step
UpdateClientsReturns == upd.active /\ ~ upd'.active

\* C8: when every construction succeeds, UpdateClients(desired) leaves the
\* instances of desired registered and no others; an instance registered
\* before keeps its handler (the same gateway and the cookie installed on it)
\* with desired[instance] as its projects. This holds for every call of a
\* sequence of calls.
C8_Reconciliation ==
    [][(UpdateClientsReturns /\ upd.failing = {}) =>
        /\ DOMAIN handlers' = DOMAIN upd.instances
        /\ \A i \in DOMAIN handlers' : handlers'[i].projects = upd.instances[i]
        /\ \A i \in DOMAIN handlers \cap DOMAIN upd.instances :
              /\ handlers'[i].gateway = handlers[i].gateway
              /\ handlers'[i].cookie = handlers[i].cookie
              /\ handlers'[i].instance = handlers[i].instance
        /\ updErr' = {}]_vars

\* after several UpdateClients calls, the last one without a failure, "i1"
\* still has its first gateway with the cookie that was installed on it, next
\* to the second gateway constructed for "i2"
C8_Witness ==
    /\ ~ Locked /\ updErr = {}
    /\ DOMAIN handlers = Instances
    /\ handlers["i1"].gateway = 1 /\ handlers["i1"].cookie = "c1"
    /\ handlers["i1"].projects = {"p2"}
    /\ handlers["i2"].gateway = 2 /\ handlers["i2"].cookie = NoCookie

\* C9: when the construction for some new instance fails, UpdateClients
\* returns an error, the failed instances are not registered, every other
\* desired instance is registered with its desired projects, and the
\* instances that are not desired are dropped.
C9_PartialSuccess ==
    [][(UpdateClientsReturns /\ upd.failing # {}) =>
        /\ updErr' # {}
        /\ DOMAIN handlers' = DOMAIN upd.instances \ upd.failing
        /\ \A i \in DOMAIN handlers' : handlers'[i].projects = upd.instances[i]]_vars

\* UpdateClients returned an error for "i2" and "i1" is registered with its
\* new projects
C9_Witness ==
    /\ ~ Locked /\ updErr = {"i2"}
    /\ DOMAIN handlers = {"i1"}
    /\ handlers["i1"].projects = {"p1", "p2"}
    /\ gens["i1"] = 2

\* the changes of the successful polls of the instance, in the order of the
\* polls
RECURSIVE ChangesOfPolls(_, _)
ChangesOfPolls(ps, instance) ==
    IF ps = <<>> THEN <<>>
    ELSE LET rest == ChangesOfPolls(Tail(ps), instance)
         IN  IF Head(ps).instance = instance /\ ~ Head(ps).err
             THEN Head(ps).changes \o rest
             ELSE rest

\* each project of the instance's handler was polled once
AllPolled(instance) ==
    \A p \in handlers[instance].projects :
        Cardinality({k \in 1 .. Len(polls) :
            polls[k].instance = instance /\ polls[k].project = p}) = 1

\* C10: when QueryChanges or QueryChangesForInstance has returned, every
\* project of every instance it covers was polled, whichever polls failed,
\* and it returned the concatenation of the changes of the polls that
\* succeeded (QueryChanges: per instance, without the instances that have no
\* change).
C10_FailureIsolation ==
    op.done =>
        CASE op.name = "QueryChanges" ->
                /\ \A i \in DOMAIN handlers : AllPolled(i)
                /\ DOMAIN opRet = {i \in DOMAIN handlers : ChangesOfPolls(polls, i) # <<>>}
                /\ \A i \in DOMAIN opRet : opRet[i] = ChangesOfPolls(polls, i)
          [] op.name = "QueryChangesForInstance" /\ op.instance \in DOMAIN handlers ->
                /\ AllPolled(op.instance)
                /\ opRet = ChangesOfPolls(polls, op.instance)
          [] OTHER -> TRUE

\* QueryChanges returned the changes of "i1" and of "i2" although the first
\* poll of "i1" failed: its other project and "i2" were polled after it
C10_Witness ==
    /\ op.done /\ op.name = "QueryChanges"
    /\ Len(polls) = 3
    /\ polls[1].instance = "i1" /\ polls[1].err
    /\ polls[2].instance = "i1" /\ ~ polls[2].err /\ Len(polls[2].changes) > 0
    /\ polls[3].instance = "i2" /\ ~ polls[3].err /\ Len(polls[3].changes) > 0
    /\ DOMAIN opRet = Instances

\* the step is a call of QueryChangesForInstance for an instance that is not
\* registered
SoftMiss ==
    /\ op.name = "none" /\ op'.name = "QueryChangesForInstance"
    /\ op'.instance \notin DOMAIN handlers

\* the step sends nothing to a gateway and starts no poll
NoGatewayRequest ==
    /\ requests' = requests
    /\ classified' = classified
    /\ polls' = polls
    /\ pc' = pc
    /\ handler' = handler

\* C11: QueryChangesForInstance for an instance that is not registered when
\* it is called returns an empty sequence, sends no request to a gateway and
\* leaves the registry as it is.
C11_SoftMiss ==
    [][SoftMiss =>
        /\ op'.done
        /\ opRet' = <<>>
        /\ NoGatewayRequest
        /\ handlers' = handlers]_vars

\* "i1", registered at first and dropped by UpdateClients, was looked up: the
\* operation returned the empty sequence without a poll
C11_Witness ==
    /\ op.name = "QueryChangesForInstance" /\ op.done
    /\ op.instance = "i1"
    /\ opRet = <<>>
    /\ polls = <<>> /\ requests = <<>>
    /\ "i1" \notin DOMAIN handlers

\* the step is a call of Client.QueryChangesForProject for an instance that
\* is not registered or a project its handler does not watch
ExplicitMiss ==
    /\ op.name = "none" /\ op'.name = "QueryChangesForProject"
    /\ \/ op'.instance \notin DOMAIN handlers
       \/ op'.project \notin handlers[op'.instance].projects

\* C12: Client.QueryChangesForProject returns an error and no change, and
\* sends no request to a gateway, when the instance is not registered or the
\* project is not among the projects of its handler at the time of the call.
C12_ExplicitMiss ==
    [][ExplicitMiss =>
        /\ op'.done
        /\ opRet' = ProjectReturn(<<>>, TRUE)
        /\ NoGatewayRequest
        /\ handlers' = handlers]_vars

\* project "p1" of "i1", watched at first and removed by UpdateClients, was
\* looked up: the operation returned an error without a request
C12_Witness ==
    /\ op.name = "QueryChangesForProject" /\ op.done
    /\ op.instance = "i1" /\ op.project = "p1"
    /\ "i1" \in DOMAIN handlers /\ handlers["i1"].projects = {"p2"}
    /\ opRet = ProjectReturn(<<>>, TRUE)
    /\ requests = <<>>

\* the step belongs to the authenticateOnce of thread t
StepOf(t) == rot'[t] # rot[t]

\* the cookie installed on each registered handler is the same before and
\* after the step
CookiesUnchanged ==
    /\ DOMAIN handlers' = DOMAIN handlers
    /\ \A h \in DOMAIN handlers : handlers'[h].cookie = handlers[h].cookie

\* C13: when the credential source returned an error in a rotation step, that
\* step leaves the remembered credential and the cookie of every handler as
\* they were.
C13_SourceErrorKeepsCredential ==
    [][\A t \in Threads :
          (rot[t].err /\ StepOf(t)) => (previousToken' = previousToken /\ CookiesUnchanged)]_vars

\* the rotation loop, whose source returned an error, has replaced the
\* credential "c1" by the empty one and is about to install that
C13_Witness ==
    /\ rot["loop"].pc = "install" /\ rot["loop"].err
    /\ previousToken = ""
    /\ handlers["i1"].cookie = "c1"

\* every registered handler carries the remembered credential
AllCarry(hs, token) == \A h \in DOMAIN hs : hs[h].cookie = token

\* C14: a credential change is installed on every registered handler in one
\* exclusive section: no query operation runs during it, every handler
\* carries the new credential when it ends, and so a running query never
\* finds some handlers with the new credential and others with the old one.
C14_AtomicCredentialChange ==
    /\ [](Reading => /\ \A t \in Threads : rot[t].pc # "install"
                     /\ AllCarry(handlers, previousToken))
    /\ [][\A t \in Threads :
            (rot[t].pc = "install" /\ rot'[t].pc # "install") =>
                AllCarry(handlers', previousToken')]_vars

\* a poll runs after the credential was rotated from "c1" to "c2", while the
\* rotation loop waits for the lock with the next credential
C14_Witness ==
    /\ Reading /\ pc = "loop"
    /\ previousToken = "c2"
    /\ AllCarry(handlers, "c2")
    /\ rot["loop"].pc = "apply" /\ rot["loop"].current = "c1"

\* C16: after any number of Authenticate calls, sequential or concurrent, at
\* most one rotation loop was started; it exists once the calls that
\* installed a source have returned, and calls without a source start none.
C16_OneRotationLoop ==
    /\ loops <= 1
    /\ authentication = NoSource => loops = 0
    /\ (authentication # NoSource /\ \A t \in Callers : rot[t].pc = "idle") => loops = 1

\* both callers have returned, the second source (the token file) replaced
\* the cookie file whose credential is still remembered, and one loop runs
C16_Witness ==
    /\ \A t \in Callers : rot[t].pc = "idle"
    /\ authentication = "tokenfile"
    /\ previousToken = "c1"
    /\ loops = 1
    /\ rot["loop"].pc # "idle"

\* C17: no authenticateOnce reads the remembered credential while another
\* thread holds the exclusive lock under which it is written.
C17_LockDiscipline ==
    [][\A t \in Threads : (rot[t].pc = "compare" /\ StepOf(t)) => ~ Locked]_vars

\* a caller is about to compare with the remembered credential while the
\* rotation loop holds the exclusive lock and has just written it
C17_Witness ==
    /\ rot["caller"].pc = "compare"
    /\ rot["loop"].pc = "install"
    /\ previousToken = rot["loop"].current

\* C15: whenever the lock is free, every registered handler carries the
\* remembered credential, also a handler UpdateClients constructed after the
\* credential was applied.
C15_AllHandlersShareCredential ==
    ~ Locked => AllCarry(handlers, previousToken)

\* the lock is free and the caller of Authenticate has returned; "i1" carries
\* the remembered credential, "i2", constructed by UpdateClients afterwards,
\* carries none
C15_Witness ==
    /\ ~ Locked /\ rot["caller"].pc = "idle"
    /\ previousToken = "c1"
    /\ DOMAIN handlers = Instances
    /\ handlers["i1"].cookie = "c1"
    /\ handlers["i2"].cookie = NoCookie

\* the Account call of caller a returns in this step
AccountReturns(a) == acc[a].pc # "idle" /\ acc'[a].pc = "idle"

\* C18: Account asks the gateway only when the cache has no entry for the
\* instance; a successful answer is stored and is what every later call
\* returns, without asking the gateway, whatever UpdateClients and the
\* rotation of the credential do; a failed lookup or an instance that is not
\* registered returns an error and stores nothing; GetAccount succeeds at
\* most once for an instance, however the calls interleave.
C18_AccountCache ==
    /\ [](\A i \in Instances : lookups[i] <= 1)
    /\ [][/\ \A i \in DOMAIN accounts : i \in DOMAIN accounts' /\ accounts'[i] = accounts[i]
          /\ \A a \in AccountCallers : AccountReturns(a) =>
                LET i == acc[a].instance
                    r == accRet'[a]
                IN  /\ r.instance = i
                    /\ r.called => i \notin DOMAIN accounts
                    /\ i \in DOMAIN accounts =>
                          r = AccountReturn(i, accounts[i], FALSE, FALSE)
                    /\ (i \notin DOMAIN accounts /\ i \notin DOMAIN handlers) =>
                          r = AccountReturn(i, NoAccount, TRUE, FALSE)
                    /\ r.err => accounts' = accounts
                    /\ (~ r.err /\ r.called) =>
                          /\ r.account = AccountInfo(i, handlers[i].gateway)
                          /\ accounts' = (i :> r.account) @@ accounts]_vars

\* the account of "i2" was stored from its first gateway; "i2" was dropped
\* and registered again and the credential was installed; the second caller
\* got the stored account without a call of the gateway
C18_Witness ==
    /\ "i2" \in DOMAIN accounts /\ accounts["i2"] = AccountInfo("i2", 1)
    /\ "i2" \in DOMAIN handlers /\ handlers["i2"].gateway = 2
    /\ previousToken = "c1"
    /\ accRet["a1"] = AccountReturn("i2", AccountInfo("i2", 1), FALSE, TRUE)
    /\ accRet["a2"] = AccountReturn("i2", AccountInfo("i2", 1), FALSE, FALSE)
    /\ \A a \in AccountCallers : acc[a].pc = "idle"

\* the step sends a page request
PageRequested == Len(requests') = Len(requests) + 1

\* C19: every page request of a poll has the page size rateLimit and, as its
\* start offset, the number of changes the earlier pages of the poll
\* returned: 0 at first and strictly larger with every request; an empty page
\* ends the poll with the accumulated changes; the poll sends at most one
\* request more than the listing has changes.
C19_PaginationProgress ==
    /\ [](/\ \A k \in 1 .. Len(requests) : requests[k].Limit = rateLimit
          /\ Len(requests) > 0 => requests[1].Start = 0
          /\ \A k \in 1 .. Len(requests) - 1 : requests[k + 1].Start > requests[k].Start
          /\ Len(requests) <= Len(server) + 1
          /\ idx <= Len(page))
    /\ [][PageRequested =>
            LET request == requests'[Len(requests')]
                answer == QueryChanges(server, start, rateLimit)
            IN  /\ request = [Start |-> start, Limit |-> rateLimit]
                /\ pc' = "loop" => /\ page' = answer /\ Len(answer) \in 1 .. rateLimit
                                   /\ start' = start + Len(answer)
                /\ (answer = <<>> /\ ~ ret'.err) =>
                      /\ pc' = "done"
                      /\ ret' = [changes |-> pending, err |-> FALSE]]_vars

\* a poll with page size 1 over a listing of two changes ended at the third
\* request, whose page was empty
C19_Witness ==
    /\ pc = "done" /\ ~ ret.err /\ ~ listChanged
    /\ rateLimit = 1
    /\ Len(server) = 2
    /\ Len(requests) = 3 /\ requests[3].Start = 2
    /\ Len(ret.changes) >= 1

\* C20: a page request that fails ends the project poll at once, with an
\* error and no changes: the changes accumulated from the earlier pages are
\* not returned, no further page is requested, the fan-out adds nothing for
\* the project and Client.QueryChangesForProject returns the empty sequence
\* with the error.
C20_TransportFailureAborts ==
    /\ [](/\ ret.err => ret.changes = <<>>
          /\ \A k \in 1 .. Len(polls) : polls[k].err => polls[k].changes = <<>>
          /\ (op.done /\ op.name = "QueryChangesForProject" /\ ret.err) =>
                opRet = ProjectReturn(<<>>, TRUE))
    /\ [][/\ (PageRequested /\ ret'.err) => pc' = "done"
          /\ (pc = "done" /\ ret.err) => (requests' = requests /\ classified' = classified)
          /\ (handler # "" /\ pc = "done" /\ ret.err) =>
                changesOfHandler' = changesOfHandler]_vars

\* Client.QueryChangesForProject returned the error and no change after the
\* second page request failed, the first page having given a change
C20_Witness ==
    /\ op.done /\ op.name = "QueryChangesForProject"
    /\ opRet = ProjectReturn(<<>>, TRUE)
    /\ ret.err
    /\ Len(requests) = 2
    /\ Len(pending) = 1

\* the step enters the loop body for a change
ChangeClassified == Len(classified') = Len(classified) + 1

\* C21: a NEW change whose comment threads could not be obtained while it
\* was classified is skipped: the step that classifies it adds nothing to
\* the result, returns no error and goes on with the next change.
C21_CommentFailureSkips ==
    [][(ChangeClassified /\ classified'[Len(classified')].fetch = "err") =>
          /\ pending' = pending
          /\ ~ ret'.err
          /\ pc' \in {"loop", "query"}]_vars

\* ListChangeComments failed for a change, and the change is in the result
\* of the poll
C21_Witness ==
    /\ pc = "done" /\ ~ ret.err /\ ~ listChanged
    /\ \E k \in 1 .. Len(classified) :
          /\ classified[k].fetch = "err"
          /\ \E i \in 1 .. Len(ret.changes) : ret.changes[i].ID = classified[k].change.ID

\* an open change updated after lastUpdate whose current revision is not in
\* its revision map
RevisionNotFound(change) ==
    /\ change.Status = New
    /\ After(parseStamp(change.Updated), lastUpdate)
    /\ change.CurrentRevision \notin DOMAIN change.Revisions

\* C22: a NEW change updated after lastUpdate whose current revision is not
\* in its revision map is never in the result, causes no ListChangeComments
\* call and no error, and does not stop the poll, which goes on with the next
\* change of the page or with the next page.
C22_MissingCurrentRevision ==
    /\ [](\A i \in 1 .. Len(pending) : ~ RevisionNotFound(pending[i]))
    /\ [][(pc = "loop" /\ RevisionNotFound(page[idx])) =>
            /\ pending' = pending
            /\ classified' = Append(classified, [change |-> page[idx], fetch |-> "none"])
            /\ ret' = ret
            /\ requests' = requests
            /\ IF idx < Len(page)
               THEN pc' = "loop" /\ page' = page /\ idx' = idx + 1
               ELSE pc' = "query"]_vars

\* a change without its current revision was skipped, and a change of a
\* later page is in the result
C22_Witness ==
    /\ pc = "done" /\ ~ ret.err /\ ~ listChanged
    /\ rateLimit = 1
    /\ \E k \in 1 .. Len(classified) :
          /\ RevisionNotFound(classified[k].change)
          /\ \A i \in 1 .. Len(ret.changes) : ret.changes[i].ID # classified[k].change.ID
          /\ \E j \in k + 1 .. Len(classified) :
                \E i \in 1 .. Len(ret.changes) : ret.changes[i].ID = classified[j].change.ID

\* the patchset-level comments of a thread map
PatchsetComments(outer) ==
    IF PatchsetLevel \in DOMAIN outer THEN outer[PatchsetLevel] ELSE <<>>

\* native followed by one synthetic message for each comment
Merge(native, comments) ==
    native \o [i \in 1 .. Len(comments) |->
                 [Author |-> comments[i].Author, Date |-> comments[i].Updated,
                  Message |-> comments[i].Message,
                  RevisionNumber |-> comments[i].PatchSet]]

Orders(n) == {f \in [1 .. n -> 1 .. n] : \A i, j \in 1 .. n : f[i] = f[j] => i = j}

\* out is from rearranged so that the dates ascend and messages with equal
\* dates keep their order in from
StablySorted(out, from) ==
    /\ Len(out) = Len(from)
    /\ \E f \in Orders(Len(from)) :
          /\ \A i \in 1 .. Len(out) : out[i] = from[f[i]]
          /\ \A i, j \in 1 .. Len(out) :
                i < j => \/ out[i].Date.Time < out[j].Date.Time
                         \/ out[i].Date.Time = out[j].Date.Time /\ f[i] < f[j]

\* the step classifies an open change after ListChangeComments answered, and
\* appends it to the result
Injected ==
    /\ ChangeClassified
    /\ classified'[Len(classified')].fetch = "ok"
    /\ Len(pending') = Len(pending) + 1

\* C23: injectPatchsetMessages appends one synthetic message (author,
\* timestamp, text, targeted revision number) for each comment of the
\* patchset-level thread and for no comment of another thread; when it
\* appended at least one, the full message sequence is stably sorted by
\* timestamp ascending (equal timestamps keep their order, native before
\* injected); when it appended none, the native messages are left as the
\* gateway returned them.
C23_InjectionWhenChanged ==
    [][Injected =>
        LET native == page[idx].Messages
            comments == PatchsetComments(threads[page[idx].ID])
            out == pending'[Len(pending')].Messages
        IN  IF Len(comments) > 0
            THEN StablySorted(out, Merge(native, comments))
            ELSE out = native]_vars

\* C23 as stated: after injectPatchsetMessages the full message sequence is
\* the native messages plus the injected ones, sorted by timestamp ascending
\* with a stable sort.
C23_PatchsetInjection ==
    [][Injected =>
        LET native == page[idx].Messages
            comments == PatchsetComments(threads[page[idx].ID])
            out == pending'[Len(pending')].Messages
        IN  StablySorted(out, Merge(native, comments))]_vars

\* comments at MaxTime and 0 and a native message at 1 were merged into the
\* order 0, 1, MaxTime, beside a thread of another path that gave no message
C23_Witness ==
    /\ Len(pending) = 1
    /\ Len(classified) = 1 /\ classified[1].fetch = "ok"
    /\ Len(classified[1].change.Messages) = 1
    /\ classified[1].change.Messages[1].Date.Time = 1
    /\ "file.go" \in DOMAIN threads[1]
    /\ Len(PatchsetComments(threads[1])) = 2
    /\ threads[1][PatchsetLevel][1].Updated.Time = MaxTime
    /\ threads[1][PatchsetLevel][2].Updated.Time = 0
    /\ Len(pending[1].Messages) = 3
    /\ pending[1].Messages[1].Message = "c2"
    /\ pending[1].Messages[2].Message = "m1"
    /\ pending[1].Messages[3].Message = "c1"

\* C24: a rotation step that reads a value equal to the previously applied
\* credential returns at the comparison: it calls SetCookieAuth on no
\* handler and leaves previousToken and the handlers unchanged. previousToken
\* and the cookies are written only in the locked section, which a step
\* enters only from a comparison where the value read differs from
\* previousToken.
C24_UnchangedIsNoOp ==
    [][/\ \A t \in Threads :
            /\ (rot[t].pc = "compare" /\ rot'[t] # rot[t] /\ rot[t].current = previousToken) =>
                  /\ rot'[t].pc \in {"spawn", "read"}
                  /\ ~ rot'[t].applied
                  /\ handlers' = handlers
                  /\ previousToken' = previousToken
            /\ (rot'[t].pc = "apply" /\ rot[t].pc # "apply") =>
                  (rot[t].pc = "compare" /\ rot[t].current # previousToken)
            /\ (rot'[t].pc = "install" /\ rot[t].pc # "install") =>
                  (rot[t].pc = "apply" /\ rot'[t].current = rot[t].current)
       /\ handlers' # handlers =>
            \E t \in Threads, h \in DOMAIN handlers :
               /\ rot[t].pc = "install"
               /\ handlers' = [handlers EXCEPT ![h] = SetCookieAuth(handlers[h], rot[t].current)]
       /\ previousToken' # previousToken =>
            \E t \in Threads : rot[t].pc = "apply" /\ rot'[t].pc = "install"]_vars

\* the rotation step of a second Authenticate call read the credential that
\* is installed and returned at the comparison
C24_Witness ==
    /\ rot["caller2"].pc = "spawn"
    /\ ~ rot["caller2"].applied
    /\ rot["caller2"].was # NoSource
    /\ rot["caller"].pc = "idle"
    /\ previousToken = "c1"
    /\ handlers["i1"].cookie = "c1"
    /\ files.cookiefile.readable

\* the configuration of the registry: the instance set and the project set
\* of every handler
Configuration(hs) == [i \in DOMAIN hs |-> hs[i].projects]

\* C25: a query operation that runs concurrently with UpdateClients sees one
\* configuration for its whole duration: while an operation holds the shared
\* lock UpdateClients does not hold the exclusive lock, and no step during
\* which an operation keeps the shared lock changes the instance set or the
\* project set of a handler. Several operations hold the shared lock at the
\* same time.
C25_ReadersSeeWholeConfiguration ==
    /\ [](Reading => ~ upd.active)
    /\ [][(\/ (op.name # "none" /\ ~ op.done /\ ~ op'.done /\ op'.name = op.name)
           \/ \E r \in ReaderIds : readers[r].pc = "held" /\ readers'[r].pc = "held") =>
            Configuration(handlers') = Configuration(handlers)]_vars

\* after a reconfiguration, a fan-out over the handlers is polling a project
\* while two other query operations hold the shared lock, and an UpdateClients
\* call waits
C25_Witness ==
    /\ DOMAIN handlers = {"i1", "i2"}
    /\ handlers["i1"].projects = {"p2"}
    /\ op.name = "QueryChanges" /\ ~ op.done
    /\ pc = "loop"
    /\ readers["r1"].pc = "held" /\ readers["r1"].name = "GetChange"
    /\ readers["r2"].pc = "held" /\ readers["r2"].name = "SetReview"
    /\ ~ upd.active

\* the first Authenticate call that selected a source is about to return
FirstReturns == rot["caller"].pc = "spawn" /\ rot["caller"].was = NoSource

\* the credentials a readable source can hold
Credentials(auth) == IF auth = "cookiefile" THEN {"c1", "c2"} ELSE {"k1"}

\* C26: when the first Authenticate call with a readable source returns, its
\* rotation step has run to its end: every handler carries the credential
\* the step read from the selected source (the cookie file when both paths
\* are given), and the rotation loop has not been started yet. The handlers
\* are those of a Client that is not reconfigured during the call.
C26_FirstCallerAuthenticated ==
    /\ [](FirstReturns =>
            /\ rot["caller"].applied
            /\ loops = 0 /\ rot["loop"].pc = "idle"
            /\ previousToken \in Credentials(authentication)
            /\ \A h \in DOMAIN handlers : handlers[h].cookie = previousToken)
    /\ [][/\ (rot["caller"].pc = "idle" /\ rot'["caller"].pc # "idle") =>
             /\ rot'["caller"].pc = "read"
             /\ authentication' \in {"cookiefile", "tokenfile"}
          /\ (rot["caller"].pc = "call" /\ rot'["caller"].pc # "call") =>
             /\ rot["caller"].auth = authentication
             /\ rot'["caller"].current = ReadSource(authentication).token]_vars

\* the first call, given both paths, is about to return with the cookie
\* file's credential on both handlers, the file having changed since
C26_Witness ==
    /\ FirstReturns
    /\ authentication = "cookiefile"
    /\ handlers["i1"].cookie = "c1" /\ handlers["i2"].cookie = "c1"
    /\ ReadSource("cookiefile").token = "c2"
    /\ ReadSource("tokenfile").token = "k1"

\* no rotation step is between its call of auth() and its return
Quiescent == \A t \in Threads : rot[t].pc \in {"idle", "read", "spawn"}

\* C27: once the rotation steps that ran concurrently have finished, the
\* credential remembered as previousToken and installed on the handlers is the
\* value that was read last from the source: a value read earlier never
\* overwrites a value read later.
C27_NoRegression ==
    Quiescent => (previousToken = lastRead /\ AllCarry(handlers, previousToken))

\* the step inside a second Authenticate call read "c1", the cookie file
\* changed, a tick of the loop read "c2" and installed it, and the step of
\* the call then installed "c1" over it: both have finished
C27_Witness ==
    /\ Quiescent
    /\ rot["caller"].pc = "spawn" /\ rot["caller"].applied
    /\ rot["caller"].was # NoSource
    /\ rot["loop"].pc = "read" /\ rot["loop"].applied
    /\ authentication = "cookiefile"
    /\ lastRead = "c2"
    /\ ReadSource("cookiefile").token = "c2"
    /\ previousToken = "c1"
    /\ AllCarry(handlers, "c1")

====
